---- MODULE Spec2Model ----
(***************************************************************************)
(* Execution engine (runner) of ai-agents-sdk-go: one call of              *)
(* RunWithConfig, modelled as a sequential state machine.  The completion  *)
(* service, the tools, the hooks and the guardrails are the environment:   *)
(* what they return is chosen with \E at the point where the engine calls  *)
(* them.                                                                   *)
(***************************************************************************)
EXTENDS Naturals, Integers, Sequences, FiniteSets, TLC

(***************************************************************************)
(* Bounds of the model                                                     *)
(***************************************************************************)
MaxTurnsBound == 3
MaxCalls == 2
MaxTotalCalls == 2
\* the same in a run with the default budget of turns
MaxDefaultRunCalls == 0
\* the inter-turn delay (RunConfig.StepDelay) of the runs that have one
MaxStepDelay == 1
\* the anti-loop registry: its minimum interval, the range of the clock, and
\* the number of CanHandoff calls
MinInterval == 2
MaxTime == 4
MaxRegistryCalls == 3
\* the number of list operations made on an agent and its clone
MaxOps == 5
\* the batch span processor: the spans that end, and its options
\* (WithMaxQueueSize, WithBatchSize)
MaxSpans == 1
MaxQueueSize == 2
MaxBatchSize == 2

(***************************************************************************)
(* Program constants                                                       *)
(***************************************************************************)
DefaultMaxTurns == 10

NoAgent == "none"
Nil == "nil"

ErrMaxTurnsExceeded == "maximum turns exceeded"
ErrModelProviderRequired == "model provider is required"
ErrGuardrailTripwire == "guardrail tripwire triggered"
ErrAgentMissingInstructions == "agent has no instructions"
ErrInvalidHandoffInput == "invalid handoff input"
ErrInvalidOutputFormat == "invalid output format"

(***************************************************************************)
(* Argument payloads the completion service sends with an invocation.      *)
(* A payload is raw text; the table records what the Go library functions  *)
(* used on it observe: whether json.Unmarshal into a map succeeds, which   *)
(* top-level fields the object has, and which keywords the text contains.  *)
(***************************************************************************)
PEmpty == "{}"
PReason == "{\"reason\":\"go\"}"
Payloads == {PEmpty, PReason}

PayloadFields(p) == IF p = PReason THEN {"reason"} ELSE {}
PayloadContains(p, kw) == p = PReason /\ kw \in {"go", "reason"}

(***************************************************************************)
(* Transfer decisions (handoff.Handoff)                                    *)
(***************************************************************************)
UpperLetters == "ABCDEFGHIJKLMNOPQRSTUVWXYZ"
LowerLetters == "abcdefghijklmnopqrstuvwxyz"

\* what strings.ReplaceAll(s, " ", "_") and then strings.ToLower do to one character
LowerUnderscoreChar(c) ==
    IF c = " " THEN "_"
    ELSE IF \E i \in 1..Len(UpperLetters) : SubSeq(UpperLetters, i, i) = c
         THEN LET i == CHOOSE i \in 1..Len(UpperLetters) : SubSeq(UpperLetters, i, i) = c
              IN  SubSeq(LowerLetters, i, i)
         ELSE c

\* strings.ToLower(strings.ReplaceAll(agentName, " ", "_"))
RECURSIVE LowerUnderscore(_)
LowerUnderscore(n) ==
    IF n = "" THEN ""
    ELSE LowerUnderscoreChar(SubSeq(n, 1, 1)) \o LowerUnderscore(SubSeq(n, 2, Len(n)))

DefaultToolName(agentName) == "transfer_to_" \o LowerUnderscore(agentName)

\* the names of the agents (Agent.Name)
AgentName(a) ==
    CASE a = "a1" -> "Triage"
      [] a = "a2" -> "Agent Two"
      [] OTHER -> "helper"

\* the type assertion targetAgent.(interface{ Name() string }): *agent.Agent
\* declares the field Name and the method GetName, and no method Name
HasNameMethod(target) == FALSE

ToolName(h) ==
    IF h.toolName # "" THEN h.toolName
    ELSE IF HasNameMethod(h.target) THEN DefaultToolName(AgentName(h.target))
    ELSE DefaultToolName(h.name)

ShouldHandoff(h, input) ==
    CASE h.name = "simple_handoff" -> TRUE
      [] h.name = "keyword_handoff" -> \E kw \in h.keywords : PayloadContains(input, kw)
      [] OTHER -> FALSE

\* handoff.ValidateJSON on a schema with a "required" list: "" when valid
ValidateJSON(jsonData, schema) ==
    IF schema.required = {} THEN ""
    ELSE IF \E f \in schema.required : f \notin PayloadFields(jsonData)
         THEN "missing required field: " \o (CHOOSE f \in schema.required : f \notin PayloadFields(jsonData))
         ELSE ""

NewHandoff(target) ==
    [name |-> "simple_handoff", target |-> target, toolName |-> "",
     keywords |-> {}, schema |-> [required |-> {}], onHandoffCB |-> FALSE]

NewHandoffWithOptions(target, required) ==
    [name |-> "simple_handoff", target |-> target, toolName |-> "",
     keywords |-> {}, schema |-> [required |-> required], onHandoffCB |-> TRUE]

NewKeywordHandoff(target, keywords) ==
    [name |-> "keyword_handoff", target |-> target, toolName |-> "",
     keywords |-> keywords, schema |-> [required |-> {}], onHandoffCB |-> FALSE]

NewKeywordHandoffWithOptions(target, keywords, required) ==
    [name |-> "keyword_handoff", target |-> target, toolName |-> "",
     keywords |-> keywords, schema |-> [required |-> required], onHandoffCB |-> TRUE]

(***************************************************************************)
(* Agent descriptors (agent.Agent).  instr: how GetSystemPrompt resolves.  *)
(***************************************************************************)
Agents == {"a1", "a2", "a3"}

AgentDef(a) ==
    CASE a = "a1" ->
           [Instructions |-> "i1", instr |-> "static",
            Tools |-> <<"foo">>,
            Handoffs |-> <<NewHandoff("a2"), NewKeywordHandoff("a3", {"go"}), NewHandoff("a3")>>,
            InputGuardrails |-> 2, OutputGuardrails |-> 0, OutputType |-> FALSE]
      [] a = "a2" ->
           [Instructions |-> "i2", instr |-> "dynamic",
            Tools |-> <<"foo">>,
            Handoffs |-> <<NewHandoffWithOptions("a1", {"reason"}),
                           NewKeywordHandoffWithOptions("a1", {"go"}, {})>>,
            InputGuardrails |-> 1, OutputGuardrails |-> 2, OutputType |-> TRUE]
      [] OTHER ->
           [Instructions |-> "", instr |-> "async",
            Tools |-> <<>>,
            Handoffs |-> <<>>,
            InputGuardrails |-> 0, OutputGuardrails |-> 0, OutputType |-> FALSE]

\* h.ToolName() for handoff j of agent a
HandoffToolName ==
    [a \in Agents |->
        [j \in 1..Len(AgentDef(a).Handoffs) |-> ToolName(AgentDef(a).Handoffs[j])]]

\* Agent.GetSystemPrompt when the instructions function (if any) succeeds
GetSystemPrompt(a) ==
    CASE AgentDef(a).instr = "async" -> "async instructions of " \o a
      [] AgentDef(a).instr = "dynamic" -> "dynamic instructions of " \o a
      [] OTHER -> AgentDef(a).Instructions

(***************************************************************************)
(* Messages                                                                *)
(***************************************************************************)
Message(role, content, toolCalls, toolCallID) ==
    [Role |-> role, Content |-> content, ToolCalls |-> toolCalls, ToolCallID |-> toolCallID]

prepareMessages(a, input) ==
    (IF AgentDef(a).Instructions # ""
        THEN <<Message("system", AgentDef(a).Instructions, <<>>, 0)>> ELSE <<>>)
    \o (IF input # "" THEN <<Message("user", input, <<>>, 0)>> ELSE <<>>)

ZeroUsage == [PromptTokens |-> 0, CompletionTokens |-> 0, TotalTokens |-> 0]

\* variant: the total is recomputed from the two parts instead of accumulated
accumulateUsageRecomputed(totalUsage, stepUsage) ==
    [PromptTokens |-> totalUsage.PromptTokens + stepUsage.PromptTokens,
     CompletionTokens |-> totalUsage.CompletionTokens + stepUsage.CompletionTokens,
     TotalTokens |-> totalUsage.TotalTokens + stepUsage.PromptTokens + stepUsage.CompletionTokens]

accumulateUsage(totalUsage, stepUsage) ==
    [PromptTokens |-> totalUsage.PromptTokens + stepUsage.PromptTokens,
     CompletionTokens |-> totalUsage.CompletionTokens + stepUsage.CompletionTokens,
     TotalTokens |-> totalUsage.TotalTokens + stepUsage.TotalTokens]

\* a call the engine makes into its environment, and how it came back
Event(ev, agent, id, arg, out) == [ev |-> ev, agent |-> agent, id |-> id, arg |-> arg, out |-> out]

(***************************************************************************)
(* Tool dispatch                                                           *)
(***************************************************************************)
ToolCall(id, name, arguments) == [ID |-> id, Name |-> name, Arguments |-> arguments]

\* the lookup loop "for _, t := range a.Tools { if t.Name() == name ..."
findTool(a, name) == \E k \in 1..Len(AgentDef(a).Tools) : AgentDef(a).Tools[k] = name

\* what tool.Invoke returns when it succeeds
InvokeResult(name) == "result of " \o name

NoFault == [idx |-> 0, stage |-> "none"]
Stages == {"OnToolStart", "Invoke", "OnToolEnd"}

StepError(sentinel, msg, events) ==
    [err |-> sentinel, errMsg |-> msg, finalOutput |-> "", structuredOutput |-> Nil,
     nextAgent |-> NoAgent, messages |-> <<>>, handoffInput |-> "", events |-> events]

\* variant: the OnToolEnd hook is not called
executeToolWithoutEndHook(a, tc, failing) ==
    LET call(stage) == <<Event(stage, a, tc.ID, tc.Name, IF failing = stage THEN "error" ELSE "ok")>>
    IN  CASE failing = "OnToolStart" ->
               [err |-> "error in OnToolStart hook", result |-> "", events |-> call("OnToolStart")]
          [] failing = "Invoke" ->
               [err |-> "tool execution error", result |-> "",
                events |-> call("OnToolStart") \o call("Invoke")]
          [] OTHER ->
               [err |-> "", result |-> InvokeResult(tc.Name),
                events |-> call("OnToolStart") \o call("Invoke")]

\* failing: the stage of this invocation that returns an error, "none" if all succeed
executeToolWithTracing(a, tc, failing) ==
    LET call(stage) == <<Event(stage, a, tc.ID, tc.Name, IF failing = stage THEN "error" ELSE "ok")>>
    IN  CASE failing = "OnToolStart" ->
               [err |-> "error in OnToolStart hook", result |-> "", events |-> call("OnToolStart")]
          [] failing = "Invoke" ->
               [err |-> "tool execution error", result |-> "",
                events |-> call("OnToolStart") \o call("Invoke")]
          [] failing = "OnToolEnd" ->
               [err |-> "error in OnToolEnd hook", result |-> "",
                events |-> call("OnToolStart") \o call("Invoke") \o call("OnToolEnd")]
          [] OTHER ->
               [err |-> "", result |-> InvokeResult(tc.Name),
                events |-> call("OnToolStart") \o call("Invoke") \o call("OnToolEnd")]

\* variant: each tool response is put in front of the earlier ones
RECURSIVE executeRegularToolsPrepending(_, _, _, _, _, _)
executeRegularToolsPrepending(a, calls, i, fault, toolResponses, events) ==
    IF i > Len(calls)
    THEN [err |-> "", errMsg |-> "", toolResponses |-> toolResponses, events |-> events]
    ELSE LET tc == calls[i] IN
         IF findTool(a, tc.Name)
         THEN LET r == executeToolWithTracing(a, tc, IF fault.idx = i THEN fault.stage ELSE "none") IN
              IF r.err # ""
              THEN [err |-> "tool execution error", errMsg |-> r.err,
                    toolResponses |-> toolResponses, events |-> events \o r.events]
              ELSE executeRegularToolsPrepending(a, calls, i + 1, fault,
                       <<Message("tool", r.result, <<>>, tc.ID)>> \o toolResponses,
                       events \o r.events)
         ELSE executeRegularToolsPrepending(a, calls, i + 1, fault,
                  <<Message("tool", "Error: Tool '" \o tc.Name \o "' not found", <<>>, tc.ID)>>
                  \o toolResponses,
                  events)

\* variant: a name that matches no tool is an error of the turn
RECURSIVE executeRegularToolsStrict(_, _, _, _, _, _)
executeRegularToolsStrict(a, calls, i, fault, toolResponses, events) ==
    IF i > Len(calls)
    THEN [err |-> "", errMsg |-> "", toolResponses |-> toolResponses, events |-> events]
    ELSE LET tc == calls[i] IN
         IF findTool(a, tc.Name)
         THEN LET r == executeToolWithTracing(a, tc, IF fault.idx = i THEN fault.stage ELSE "none") IN
              IF r.err # ""
              THEN [err |-> "tool execution error", errMsg |-> r.err,
                    toolResponses |-> toolResponses, events |-> events \o r.events]
              ELSE executeRegularToolsStrict(a, calls, i + 1, fault,
                       Append(toolResponses, Message("tool", r.result, <<>>, tc.ID)),
                       events \o r.events)
         ELSE [err |-> "tool execution error", errMsg |-> "tool not found: " \o tc.Name,
               toolResponses |-> toolResponses, events |-> events]

\* variant: a failing invocation is reported to the model like a missing tool
RECURSIVE executeRegularToolsLenient(_, _, _, _, _, _)
executeRegularToolsLenient(a, calls, i, fault, toolResponses, events) ==
    IF i > Len(calls)
    THEN [err |-> "", errMsg |-> "", toolResponses |-> toolResponses, events |-> events]
    ELSE LET tc == calls[i] IN
         IF findTool(a, tc.Name)
         THEN LET r == executeToolWithTracing(a, tc, IF fault.idx = i THEN fault.stage ELSE "none") IN
              executeRegularToolsLenient(a, calls, i + 1, fault,
                  Append(toolResponses,
                         Message("tool", IF r.err # "" THEN "Error: " \o r.err ELSE r.result,
                                 <<>>, tc.ID)),
                  events \o r.events)
         ELSE executeRegularToolsLenient(a, calls, i + 1, fault,
                  Append(toolResponses,
                         Message("tool", "Error: Tool '" \o tc.Name \o "' not found", <<>>, tc.ID)),
                  events)

\* the loop "Execute regular tools" from invocation i on; fault names the first
\* stage that fails in this response (NoFault: none)
RECURSIVE executeRegularTools(_, _, _, _, _, _)
executeRegularTools(a, calls, i, fault, toolResponses, events) ==
    IF i > Len(calls)
    THEN [err |-> "", errMsg |-> "", toolResponses |-> toolResponses, events |-> events]
    ELSE LET tc == calls[i] IN
         IF findTool(a, tc.Name)
         THEN LET r == executeToolWithTracing(a, tc, IF fault.idx = i THEN fault.stage ELSE "none") IN
              IF r.err # ""
              THEN [err |-> "tool execution error", errMsg |-> r.err,
                    toolResponses |-> toolResponses, events |-> events \o r.events]
              ELSE executeRegularTools(a, calls, i + 1, fault,
                       Append(toolResponses, Message("tool", r.result, <<>>, tc.ID)),
                       events \o r.events)
         ELSE executeRegularTools(a, calls, i + 1, fault,
                  Append(toolResponses,
                         Message("tool", "Error: Tool '" \o tc.Name \o "' not found", <<>>, tc.ID)),
                  events)

\* variant: the first handoff named like tc is taken, whatever ShouldHandoff says
RECURSIVE scanHandoffsByName(_, _, _)
scanHandoffsByName(a, tc, j) ==
    IF j > Len(AgentDef(a).Handoffs) THEN 0
    ELSE IF HandoffToolName[a][j] = tc.Name THEN j
         ELSE scanHandoffsByName(a, tc, j + 1)

\* inner loop of "Check for handoff tool call first": the first handoff of a,
\* from j on, named like tc whose ShouldHandoff says yes; 0 if there is none
RECURSIVE scanHandoffs(_, _, _)
scanHandoffs(a, tc, j) ==
    IF j > Len(AgentDef(a).Handoffs) THEN 0
    ELSE IF HandoffToolName[a][j] = tc.Name
            /\ ShouldHandoff(AgentDef(a).Handoffs[j], tc.Arguments)
         THEN j
         ELSE scanHandoffs(a, tc, j + 1)

\* variant: a later invocation that requests a transfer replaces an earlier one
RECURSIVE scanToolCallsLast(_, _, _)
scanToolCallsLast(a, calls, i) ==
    IF i > Len(calls) THEN [i |-> 0, j |-> 0]
    ELSE LET rest == scanToolCallsLast(a, calls, i + 1) IN
         IF rest.i # 0 THEN rest
         ELSE IF scanHandoffs(a, calls[i], 1) # 0
              THEN [i |-> i, j |-> scanHandoffs(a, calls[i], 1)]
              ELSE [i |-> 0, j |-> 0]

\* outer loop: the first invocation, from i on, for which scanHandoffs finds one
RECURSIVE scanToolCalls(_, _, _)
scanToolCalls(a, calls, i) ==
    IF i > Len(calls) THEN [i |-> 0, j |-> 0]
    ELSE IF scanHandoffs(a, calls[i], 1) # 0
         THEN [i |-> i, j |-> scanHandoffs(a, calls[i], 1)]
         ELSE scanToolCalls(a, calls, i + 1)

\* variant: the invocations are dispatched before the transfer is taken
processToolCallsThenHandoff(a, message, fault) ==
    LET calls == message.ToolCalls
        m == scanToolCalls(a, calls, 1)
        r == executeRegularTools(a, calls, 1, fault, <<>>, <<>>)
    IN  IF r.err # ""
        THEN StepError(r.err, r.errMsg, r.events)
        ELSE IF m.i # 0
        THEN LET h == AgentDef(a).Handoffs[m.j]
                 tc == calls[m.i]
                 invalid == IF h.schema.required # {} THEN ValidateJSON(tc.Arguments, h.schema) ELSE ""
             IN  IF invalid # ""
                 THEN StepError(ErrInvalidHandoffInput, invalid, r.events)
                 ELSE [err |-> "", errMsg |-> "", finalOutput |-> "", structuredOutput |-> Nil,
                       nextAgent |-> h.target, messages |-> <<message>> \o r.toolResponses,
                       handoffInput |-> tc.Arguments, events |-> r.events]
        ELSE [err |-> "", errMsg |-> "", finalOutput |-> "", structuredOutput |-> Nil,
              nextAgent |-> NoAgent, messages |-> <<message>> \o r.toolResponses,
              handoffInput |-> "", events |-> r.events]

\* variant: the payload of a transfer is not validated against its schema
processToolCallsUnvalidated(a, message, fault) ==
    LET calls == message.ToolCalls
        m == scanToolCalls(a, calls, 1)
    IN  IF m.i # 0
        THEN [err |-> "", errMsg |-> "", finalOutput |-> "", structuredOutput |-> Nil,
              nextAgent |-> AgentDef(a).Handoffs[m.j].target, messages |-> <<message>>,
              handoffInput |-> calls[m.i].Arguments, events |-> <<>>]
        ELSE LET r == executeRegularTools(a, calls, 1, fault, <<>>, <<>>) IN
             IF r.err # ""
             THEN StepError(r.err, r.errMsg, r.events)
             ELSE [err |-> "", errMsg |-> "", finalOutput |-> "", structuredOutput |-> Nil,
                   nextAgent |-> NoAgent, messages |-> <<message>> \o r.toolResponses,
                   handoffInput |-> "", events |-> r.events]

processToolCallsAndHandoffs(a, message, fault) ==
    LET calls == message.ToolCalls
        m == scanToolCalls(a, calls, 1)
    IN  IF m.i # 0
        THEN LET h == AgentDef(a).Handoffs[m.j]
                 tc == calls[m.i]
                 invalid == IF h.schema.required # {} THEN ValidateJSON(tc.Arguments, h.schema) ELSE ""
             IN  IF invalid # ""
                 THEN StepError(ErrInvalidHandoffInput, invalid, <<>>)
                 ELSE [err |-> "", errMsg |-> "", finalOutput |-> "", structuredOutput |-> Nil,
                       nextAgent |-> h.target, messages |-> <<message>>,
                       handoffInput |-> tc.Arguments, events |-> <<>>]
        ELSE LET r == executeRegularTools(a, calls, 1, fault, <<>>, <<>>) IN
             IF r.err # ""
             THEN StepError(r.err, r.errMsg, r.events)
             ELSE [err |-> "", errMsg |-> "", finalOutput |-> "", structuredOutput |-> Nil,
                   nextAgent |-> NoAgent, messages |-> <<message>> \o r.toolResponses,
                   handoffInput |-> "", events |-> r.events]

\* the faults the environment can produce while a processes these invocations
Faults(a, calls) ==
    {NoFault} \cup
    (IF scanToolCalls(a, calls, 1).i # 0 THEN {}
     ELSE {[idx |-> i, stage |-> s] : i \in {k \in 1..Len(calls) : findTool(a, calls[k].Name)},
                                      s \in Stages})

(***************************************************************************)
(* Final output: strict output shape and output guardrails                 *)
(***************************************************************************)
JsonBar == "{\"bar\":\"baz\"}"

\* json.Unmarshal of the content into the agent's OutputType, a struct with
\* the one field Bar: an object without the field leaves it at its zero value
UnmarshalOK(content) == content \in {JsonBar, PEmpty}
Unmarshal(content) == IF content = JsonBar THEN "{Bar:baz}" ELSE "{Bar:}"

\* result of output guardrail i: "allow", "rewrite" (allowed, ModifiedOutput set),
\* "deny" or "error"
GuardrailOutcomes == {"allow", "rewrite", "deny", "error"}
ModifiedOutput(i) == IF i = 1 THEN "rewritten by g1" ELSE "rewritten by g2"
GuardrailMessage(i) == IF i = 1 THEN "blocked by g1" ELSE "blocked by g2"

\* variant: the text a check hands back is not passed on
RECURSIVE applyOutputGuardrailsDroppingRewrite(_, _, _, _, _)
applyOutputGuardrailsDroppingRewrite(a, modifiedOutput, gr, i, events) ==
    IF i > AgentDef(a).OutputGuardrails
    THEN [err |-> "", errMsg |-> "", output |-> modifiedOutput, events |-> events]
    ELSE LET ev == Append(events, Event("OutputCheck", a, i, modifiedOutput, gr[i])) IN
         CASE gr[i] = "error" ->
                [err |-> "output guardrail error", errMsg |-> "", output |-> "", events |-> ev]
           [] gr[i] = "deny" ->
                [err |-> ErrGuardrailTripwire, errMsg |-> GuardrailMessage(i), output |-> "",
                 events |-> ev]
           [] OTHER -> applyOutputGuardrailsDroppingRewrite(a, modifiedOutput, gr, i + 1, ev)

RECURSIVE applyOutputGuardrails(_, _, _, _, _)
applyOutputGuardrails(a, modifiedOutput, gr, i, events) ==
    IF i > AgentDef(a).OutputGuardrails
    THEN [err |-> "", errMsg |-> "", output |-> modifiedOutput, events |-> events]
    ELSE LET ev == Append(events, Event("OutputCheck", a, i, modifiedOutput, gr[i])) IN
         CASE gr[i] = "error" ->
                [err |-> "output guardrail error", errMsg |-> "", output |-> "", events |-> ev]
           [] gr[i] = "deny" ->
                [err |-> ErrGuardrailTripwire, errMsg |-> GuardrailMessage(i), output |-> "",
                 events |-> ev]
           [] gr[i] = "rewrite" -> applyOutputGuardrails(a, ModifiedOutput(i), gr, i + 1, ev)
           [] OTHER -> applyOutputGuardrails(a, modifiedOutput, gr, i + 1, ev)

\* outcomes of n checks in which nothing follows the first deny or error
RECURSIVE OutcomeSeqs(_, _)
OutcomeSeqs(n, outcomes) ==
    IF n = 0 THEN {<<>>}
    ELSE {<<o>> \o rest : o \in outcomes \ {"deny", "error"}, rest \in OutcomeSeqs(n - 1, outcomes)}
         \cup {<<o>> \o [k \in 1..(n - 1) |-> "allow"] : o \in outcomes \cap {"deny", "error"}}

\* variant: a response that carries text is final whatever else it carries
processResponseTextFirst(a, message, fault, gr) ==
    IF Len(message.ToolCalls) > 0 /\ message.Content = ""
    THEN processToolCallsAndHandoffs(a, message, fault)
    ELSE LET finalOutput == message.Content
             typed == AgentDef(a).OutputType
             parseEv == IF typed
                        THEN <<Event("Unmarshal", a, 0, finalOutput,
                                     IF UnmarshalOK(finalOutput) THEN "ok" ELSE "error")>>
                        ELSE <<>>
         IN  IF typed /\ ~UnmarshalOK(finalOutput)
             THEN StepError(ErrInvalidOutputFormat, "", parseEv)
             ELSE [err |-> "", errMsg |-> "", finalOutput |-> finalOutput,
                   structuredOutput |-> IF typed THEN Unmarshal(finalOutput) ELSE Nil,
                   nextAgent |-> NoAgent, messages |-> <<message>>, handoffInput |-> "",
                   events |-> parseEv]

\* variant: content that does not parse leaves the structured value absent
processResponseSkippingParse(a, message, fault, gr) ==
    IF Len(message.ToolCalls) > 0
    THEN processToolCallsAndHandoffs(a, message, fault)
    ELSE LET finalOutput == message.Content
             typed == AgentDef(a).OutputType
             parseEv == IF typed
                        THEN <<Event("Unmarshal", a, 0, finalOutput,
                                     IF UnmarshalOK(finalOutput) THEN "ok" ELSE "error")>>
                        ELSE <<>>
             structuredOutput == IF typed /\ UnmarshalOK(finalOutput) THEN Unmarshal(finalOutput)
                                 ELSE Nil
             g == IF AgentDef(a).OutputGuardrails > 0
                  THEN applyOutputGuardrails(a, finalOutput, gr, 1, parseEv)
                  ELSE [err |-> "", errMsg |-> "", output |-> finalOutput, events |-> parseEv]
         IN  IF g.err # ""
             THEN StepError(g.err, g.errMsg, g.events)
             ELSE [err |-> "", errMsg |-> "", finalOutput |-> g.output,
                   structuredOutput |-> structuredOutput, nextAgent |-> NoAgent,
                   messages |-> <<message>>, handoffInput |-> "", events |-> g.events]

\* variant: the structured value is parsed from the text the checks hand back
processResponseReparsing(a, message, fault, gr) ==
    IF Len(message.ToolCalls) > 0
    THEN processToolCallsAndHandoffs(a, message, fault)
    ELSE LET finalOutput == message.Content
             typed == AgentDef(a).OutputType
             parseEv == IF typed
                        THEN <<Event("Unmarshal", a, 0, finalOutput,
                                     IF UnmarshalOK(finalOutput) THEN "ok" ELSE "error")>>
                        ELSE <<>>
         IN  IF typed /\ ~UnmarshalOK(finalOutput)
             THEN StepError(ErrInvalidOutputFormat, "", parseEv)
             ELSE LET g == IF AgentDef(a).OutputGuardrails > 0
                           THEN applyOutputGuardrails(a, finalOutput, gr, 1, parseEv)
                           ELSE [err |-> "", errMsg |-> "", output |-> finalOutput, events |-> parseEv]
                  IN  IF g.err # ""
                      THEN StepError(g.err, g.errMsg, g.events)
                      ELSE [err |-> "", errMsg |-> "", finalOutput |-> g.output,
                            structuredOutput |-> IF typed /\ UnmarshalOK(g.output)
                                                 THEN Unmarshal(g.output) ELSE Nil,
                            nextAgent |-> NoAgent, messages |-> <<message>>,
                            handoffInput |-> "", events |-> g.events]

\* processAgentStep after a successful completion-service call
processResponse(a, message, fault, gr) ==
    IF Len(message.ToolCalls) > 0
    THEN processToolCallsAndHandoffs(a, message, fault)
    ELSE LET finalOutput == message.Content
             typed == AgentDef(a).OutputType
             parseEv == IF typed
                        THEN <<Event("Unmarshal", a, 0, finalOutput,
                                     IF UnmarshalOK(finalOutput) THEN "ok" ELSE "error")>>
                        ELSE <<>>
         IN  IF typed /\ ~UnmarshalOK(finalOutput)
             THEN StepError(ErrInvalidOutputFormat, "", parseEv)
             ELSE LET structuredOutput == IF typed THEN Unmarshal(finalOutput) ELSE Nil
                      g == IF AgentDef(a).OutputGuardrails > 0
                           THEN applyOutputGuardrails(a, finalOutput, gr, 1, parseEv)
                           ELSE [err |-> "", errMsg |-> "", output |-> finalOutput, events |-> parseEv]
                  IN  IF g.err # ""
                      THEN StepError(g.err, g.errMsg, g.events)
                      ELSE [err |-> "", errMsg |-> "", finalOutput |-> g.output,
                            structuredOutput |-> structuredOutput, nextAgent |-> NoAgent,
                            messages |-> <<message>>, handoffInput |-> "", events |-> g.events]

(***************************************************************************)
(* Input guardrails                                                        *)
(***************************************************************************)
InputGuardrailMessage(i) == IF i = 1 THEN "input blocked by g1" ELSE "input blocked by g2"

\* variant: only an error of a check stops the loop, its verdict is not read
RECURSIVE applyInputGuardrailsErrorsOnly(_, _, _, _, _)
applyInputGuardrailsErrorsOnly(a, input, ig, i, events) ==
    IF i > AgentDef(a).InputGuardrails
    THEN [err |-> "", errMsg |-> "", events |-> events]
    ELSE LET ev == Append(events, Event("InputCheck", a, i, input, ig[i])) IN
         CASE ig[i] = "error" -> [err |-> "input guardrail error", errMsg |-> "", events |-> ev]
           [] OTHER -> applyInputGuardrailsErrorsOnly(a, input, ig, i + 1, ev)

\* the loop of applyInputGuardrails over state.agent.InputGuardrails from check i on
RECURSIVE applyInputGuardrails(_, _, _, _, _)
applyInputGuardrails(a, input, ig, i, events) ==
    IF i > AgentDef(a).InputGuardrails
    THEN [err |-> "", errMsg |-> "", events |-> events]
    ELSE LET ev == Append(events, Event("InputCheck", a, i, input, ig[i])) IN
         CASE ig[i] = "error" -> [err |-> "input guardrail error", errMsg |-> "", events |-> ev]
           [] ig[i] = "deny" ->
                [err |-> ErrGuardrailTripwire, errMsg |-> InputGuardrailMessage(i), events |-> ev]
           [] OTHER -> applyInputGuardrails(a, input, ig, i + 1, ev)

(***************************************************************************)
(* What the completion service may answer                                  *)
(***************************************************************************)
TransferSimple == DefaultToolName("simple_handoff")
TransferKeyword == DefaultToolName("keyword_handoff")

CallKinds ==
    {[Name |-> "foo", Arguments |-> PEmpty],
     [Name |-> "ghost", Arguments |-> PEmpty],
     [Name |-> TransferSimple, Arguments |-> PEmpty],
     [Name |-> TransferSimple, Arguments |-> PReason],
     [Name |-> TransferKeyword, Arguments |-> PEmpty],
     [Name |-> TransferKeyword, Arguments |-> PReason]}

FinalContents == {"", "done", JsonBar, PEmpty}
CallContents == {"", "thinking"}

\* invocation k of the response to call number n carries the id 10 * n + k
CallSeqs(n, len) ==
    {[k \in 1..len |-> ToolCall(10 * n + k, kinds[k].Name, kinds[k].Arguments)] :
        kinds \in [1..len -> CallKinds]}

Min(x, y) == IF x < y THEN x ELSE y

\* the assistant messages the service may return to call number n when it may
\* still request `left` invocations in this run
Responses(n, left) ==
    {Message("assistant", c, <<>>, 0) : c \in FinalContents}
    \cup {Message("assistant", c, calls, 0) :
            c \in CallContents,
            calls \in UNION {CallSeqs(n, len) : len \in 1..Min(MaxCalls, left)}}

\* the usage the service reports for a call: it grows with the prompt and with
\* the answer, and the total is not the sum of the two parts
UsageOf(sent, message) ==
    [PromptTokens |-> Len(sent),
     CompletionTokens |-> Len(message.ToolCalls) + (IF message.Content # "" THEN 1 ELSE 0),
     TotalTokens |-> Len(sent) + Len(message.ToolCalls) + 2]

(***************************************************************************)
(* The anti-loop registry (handoff.Registry)                               *)
(***************************************************************************)
\* the key of recentHandoffs: fmt.Sprintf("%s->%s", from, to)
HandoffKey(from, to) == from \o "->" \o to

\* the callers of the registry, and the calls they make
Callers == {1, 2}
RegistryCalls ==
    {[from |-> "a", to |-> "b"], [from |-> "b", to |-> "a"],
     [from |-> "a->b", to |-> "a"], [from |-> "a", to |-> "b->a"]}

\* NewHandoffRegistry: an empty map; the mutex is free (0)
NewHandoffRegistry == [recentHandoffs |-> <<>>, mutex |-> 0]
IdleCaller == [pc |-> "idle", from |-> "", to |-> "", now |-> 0, overlapped |-> FALSE]

\* variant: the lock does not exclude a second caller
mutexIgnored(m) == TRUE

\* r.mutex.Lock() returns only while no caller holds the mutex
mutexFree(m) == m = 0

TooSoonReason(from, to) == "too soon to handoff from " \o from \o " to " \o to \o " again"
LoopReason(from, to) == "potential handoff loop detected between " \o from \o " and " \o to

(***************************************************************************)
(* The list fields of an Agent as Go slices: a header (backing array,      *)
(* length, capacity) over a heap of arrays.  Slot 0 of the element type    *)
(* stands for the zero value.                                              *)
(***************************************************************************)
ListFields == {"Tools", "Handoffs", "InputGuardrails", "OutputGuardrails"}

NilSlice == [arr |-> 0, len |-> 0, cap |-> 0]
NilLists == [f \in ListFields |-> NilSlice]

\* make([]T, n): a fresh zeroed array of n elements, allocated at index arr
MakeArray(n) == [i \in 1..n |-> 0]
MakeSlice(arr, n) == [arr |-> arr, len |-> n, cap |-> n]

\* agent.New: Tools and Handoffs are make([]T, 0), the guardrail lists are nil
NewAgentHeap == <<MakeArray(0), MakeArray(0)>>
NewAgentLists ==
    [f \in ListFields |-> CASE f = "Tools" -> MakeSlice(1, 0)
                            [] f = "Handoffs" -> MakeSlice(2, 0)
                            [] OTHER -> NilSlice]

\* the elements a slice shows: s[0:len(s)]
Elements(h, s) == IF s.arr = 0 THEN <<>> ELSE SubSeq(h[s.arr], 1, s.len)

\* append grows a full slice into a fresh array of doubled capacity
GrownCap(c) == IF c = 0 THEN 1 ELSE 2 * c

\* append(s, x): in place while len(s) < cap(s), else into a fresh array
AppendHeap(h, s, x) ==
    IF s.len < s.cap
    THEN [h EXCEPT ![s.arr][s.len + 1] = x]
    ELSE Append(h, [i \in 1..GrownCap(s.cap) |->
                       IF i <= s.len THEN h[s.arr][i] ELSE IF i = s.len + 1 THEN x ELSE 0])
AppendSlice(h, s) ==
    IF s.len < s.cap
    THEN [s EXCEPT !.len = s.len + 1]
    ELSE [arr |-> Len(h) + 1, len |-> s.len + 1, cap |-> GrownCap(s.cap)]

\* the fields of ListFields in the order Clone makes them
FieldOrder == <<"Tools", "Handoffs", "InputGuardrails", "OutputGuardrails">>
FieldIndex(f) == CHOOSE i \in 1..Len(FieldOrder) : FieldOrder[i] = f

\* variant: Clone copies the slice headers, not the elements
CloneListsShallow(h, src) == src

\* Clone: each list is make([]T, len(a.X)) followed by copy(cloned.X, a.X)
CloneLists(h, src) == [f \in ListFields |-> MakeSlice(Len(h) + FieldIndex(f), src[f].len)]
CloneHeap(h, src) == h \o [i \in 1..Len(FieldOrder) |-> Elements(h, src[FieldOrder[i]])]

\* the instruction sources of an agent: the Instructions text and the two
\* function fields, Nil when not set.  A function is named by what it
\* returns; an async function returns a text or an error.
InstructionTexts == {"", "static"}
InstructionsFuncs == {Nil, "dynamic f", "dynamic g"}
AsyncInstructionsFuncs == {Nil, "async f", "async failing"}
ZeroInstructions ==
    [Instructions |-> "", dynamicInstructions |-> Nil, asyncDynamicInstructions |-> Nil]

\* what an AsyncInstructionsFunc returns
CallAsync(f) ==
    IF f = "async failing" THEN [text |-> "", err |-> "instructions failed"]
    ELSE [text |-> f, err |-> ""]

\* Agent.GetSystemPrompt on the fields of an agent
SystemPromptOf(x) ==
    IF x.asyncDynamicInstructions # Nil THEN CallAsync(x.asyncDynamicInstructions)
    ELSE IF x.dynamicInstructions # Nil THEN [text |-> x.dynamicInstructions, err |-> ""]
    ELSE [text |-> x.Instructions, err |-> ""]

\* Clone: the composite literal names Instructions and neither function field
CloneInstructions(src) == [ZeroInstructions EXCEPT !.Instructions = src.Instructions]

(***************************************************************************)
(* BatchSpanProcessor: the operations on its fields.  spans: the batch the *)
(* loop collects; queue: the buffered channel; done: whether the channel   *)
(* is closed; exportTrigger: the one-slot channel; wg: the WaitGroup.      *)
(***************************************************************************)
SpanIDs == 1..MaxSpans
ShutdownCallers == {1, 2}

NewBatchSpanProcessor ==
    [spans |-> <<>>, queue |-> <<>>, done |-> FALSE, exportTrigger |-> 0, wg |-> 0]

\* "case p.queue <- span" can proceed
queueHasRoom(p) == Len(p.queue) < MaxQueueSize

\* ProcessSpan: the span is queued, or dropped when the queue is full; then
\* the trigger is set when the queue holds a batch
ProcessSpan(p, span) ==
    LET q == IF queueHasRoom(p) THEN Append(p.queue, span) ELSE p.queue
    IN  [p EXCEPT !.queue = q,
                  !.exportTrigger = IF Len(q) >= MaxBatchSize THEN 1 ELSE @]

\* export: the batch is handed to exporter.ExportSpans, unless it is empty
export(handed, batch) ==
    [s \in DOMAIN handed |->
        handed[s] + Cardinality({i \in 1..Len(batch) : batch[i] = s})]

\* "case <-p.done": the loop takes nothing more from the queue
takeNothing(p) == p

\* variant: Shutdown closes the channel without looking at it
alreadyClosedUnchecked(p) == FALSE

\* Shutdown's "select { case <-p.done: alreadyClosed = true; default: close(p.done) }"
alreadyClosed(p) == p.done

\* StandardSpan.End: one OnEnd for each of the tracer's processors, then
\* NotifySpanEnded: one OnEnd for each of the global processors
NotifySpanEnded(tracerProcessors, globalProcessors) ==
    Len(tracerProcessors) + Len(globalProcessors)

(***************************************************************************)
(* State: the fields of executionState, the position in RunWithConfig, and *)
(* what the caller and the environment observe                             *)
(***************************************************************************)
VARIABLES
    pc,               \* "init", "loop", "step", "post", "end", "done"
    config,           \* RunConfig after validateInputsAndSetup, with the start agent and input
    currentAgent,
    messages,
    resultMessages,
    usage,
    stepCounter,
    finalOutput,
    structuredOutput,
    stepResult,       \* the stepResult runSingleTurn returned, until processStepResult used it
    result,           \* the *Result RunWithConfig returns, NoResult while running or on error
    err,              \* the error RunWithConfig returns, "" while running or on success
    errMsg,
    modelCalls,       \* calls of CreateChatCompletion made so far
    sent,             \* the message buffer passed to the latest call
    received,         \* the answers of the completion service, with the agent that asked
    reported,         \* the usage reported by each successful call, in order
    requested,        \* invocations requested by the service so far
    trace,            \* hook, tool and guardrail calls, in order
    call,             \* the arguments RunWithConfig was called with
    spans,            \* the spans the tracer started, in order, with a tracer that records
    sleeps,           \* the calls of time.Sleep(StepDelay) made so far, in order
    recentHandoffs,   \* Registry.recentHandoffs: key -> time of the last allowed transfer
    mutex,            \* Registry.mutex: the caller that holds it, 0 when free
    clock,            \* what time.Now() returns
    callers,          \* each caller's position in CanHandoff and its locals
    verdicts,         \* what the CanHandoff calls returned, in the order they returned
    heap,             \* the backing arrays of the slices, in the order they were allocated
    lists,            \* agent -> field -> slice header (array, len, cap)
    cloned,           \* whether c := a.Clone() has run
    ops,              \* the number of list operations made so far
    lastOp,           \* the agent the latest operation was made on
    instructionFields,\* agent -> Instructions, dynamicInstructions, asyncDynamicInstructions
    cancelledAt,      \* the number of calls of the completion service made when the
                      \* caller cancelled the context, NotCancelled before
    processor,        \* the fields of the BatchSpanProcessor
    processLoop,      \* the position of the goroutine: "spawned", "select", "returned"
    shutdowns,        \* each Shutdown call: its position, its context, its locals
    processorLists,   \* tracer.processors and the global spanProcessors
    ended,            \* span -> completed, OnEnd calls still to make and made
    exported,         \* span -> how often it was in a batch handed to exporter.ExportSpans
    closes            \* the number of times close(p.done) ran

\* the state of a run, the state of the registry, and the state a run never touches
runnerVars == <<pc, config, currentAgent, messages, resultMessages, usage, stepCounter,
                finalOutput, structuredOutput, stepResult, result, err, errMsg, modelCalls,
                sent, received, reported, requested, trace, call, spans, sleeps>>
registryVars == <<recentHandoffs, mutex, clock, callers, verdicts>>
cloneVars == <<heap, lists, cloned, ops, lastOp, instructionFields>>
batchVars == <<processor, processLoop, shutdowns, processorLists, ended, exported, closes>>
asideVars == <<registryVars, cloneVars, cancelledAt, batchVars>>
nonRegistryVars == <<runnerVars, cloneVars, cancelledAt, batchVars>>
nonCloneVars == <<runnerVars, registryVars, cancelledAt, batchVars>>
nonBatchVars == <<runnerVars, registryVars, cloneVars, cancelledAt>>

vars == <<runnerVars, asideVars>>

\* the caller's context is not cancelled
NotCancelled == -1

\* a Shutdown call that has not been made.  exporterOk and complete are set
\* when the call returns: whether the exporter shut down, and whether every
\* span queued before the first Shutdown call had been handed to the
\* exporter exactly once
IdleShutdown == [pc |-> "idle", ctx |-> "", alreadyClosed |-> FALSE, err |-> "",
                 exporterOk |-> FALSE, complete |-> FALSE]

\* a span that was started.  pending: the OnEnd calls End still has to make;
\* delivered, accepted, early: the OnEnd calls made, those that queued the
\* span, and those that queued it before Shutdown was first called
NewSpan == [completed |-> FALSE, pending |-> 0, delivered |-> 0, accepted |-> 0, early |-> 0]

\* the nil *Result: what RunWithConfig returns next to an error
NoResult == [FinalOutput |-> "", StructuredOutput |-> Nil, LastAgent |-> NoAgent,
             History |-> <<>>, Usage |-> ZeroUsage]

NoStep == StepError("", "", <<>>)
NoConfig == [agent |-> NoAgent, input |-> "", MaxTurns |-> 0, ModelProvider |-> FALSE,
             HandoffCallback |-> FALSE, HandoffInputFilter |-> FALSE, StepDelay |-> 0]

Init ==
    /\ pc = "init"
    /\ config = NoConfig
    /\ currentAgent = NoAgent
    /\ messages = <<>>
    /\ resultMessages = <<>>
    /\ usage = ZeroUsage
    /\ stepCounter = 0
    /\ finalOutput = ""
    /\ structuredOutput = Nil
    /\ stepResult = NoStep
    /\ result = NoResult
    /\ err = ""
    /\ errMsg = ""
    /\ modelCalls = 0
    /\ sent = <<>>
    /\ received = <<>>
    /\ reported = <<>>
    /\ requested = 0
    /\ trace = <<>>
    /\ call = [agent |-> NoAgent, input |-> "", config |-> NoConfig, calls |-> 0]
    /\ spans = <<>>
    /\ sleeps = <<>>
    /\ recentHandoffs = NewHandoffRegistry.recentHandoffs
    /\ mutex = NewHandoffRegistry.mutex
    /\ clock = 0
    /\ callers = [t \in Callers |-> IdleCaller]
    /\ verdicts = <<>>
    /\ heap = NewAgentHeap
    /\ lists = [x \in {"a", "c"} |-> IF x = "a" THEN NewAgentLists ELSE NilLists]
    /\ cloned = FALSE
    /\ ops = 0
    /\ lastOp = ""
    /\ instructionFields = [x \in {"a", "c"} |-> ZeroInstructions]
    /\ cancelledAt = NotCancelled
    /\ processor = NewBatchSpanProcessor
    /\ processLoop = "spawned"
    /\ shutdowns = [c \in ShutdownCallers |-> IdleShutdown]
    /\ processorLists = [tracer |-> <<>>, global |-> <<>>]
    /\ ended = [s \in SpanIDs |-> NewSpan]
    /\ exported = [s \in SpanIDs |-> 0]
    /\ closes = 0

\* RunWithConfig returns (nil, error)
Fail(sentinel, msg) ==
    /\ pc' = "done"
    /\ err' = sentinel
    /\ errMsg' = msg
    /\ result' = NoResult

(***************************************************************************)
(* RunWithConfig up to the entry of the loop                               *)
(***************************************************************************)
\* variant: a turn budget of zero or less is kept as it is
validateInputsAndSetupKeepingBudget(a, maxTurns, provider) ==
    IF AgentDef(a).Instructions = "" THEN [err |-> ErrAgentMissingInstructions, MaxTurns |-> maxTurns]
    ELSE IF ~provider THEN [err |-> ErrModelProviderRequired, MaxTurns |-> maxTurns]
    ELSE [err |-> "", MaxTurns |-> maxTurns]

validateInputsAndSetup(a, maxTurns, provider) ==
    IF AgentDef(a).Instructions = "" THEN [err |-> ErrAgentMissingInstructions, MaxTurns |-> maxTurns]
    ELSE IF ~provider THEN [err |-> ErrModelProviderRequired, MaxTurns |-> maxTurns]
    ELSE [err |-> "", MaxTurns |-> IF maxTurns <= 0 THEN DefaultMaxTurns ELSE maxTurns]

\* ig: what each input guardrail answers; onStart: whether the OnStart hook succeeds
RunWithConfig(a, input, cfg, ig, onStart) ==
    /\ pc = "init"
    /\ LET v == validateInputsAndSetup(a, cfg.MaxTurns, cfg.ModelProvider)
           g == applyInputGuardrails(a, input, ig, 1, <<>>)
       IN
       /\ config' = [cfg EXCEPT !.agent = a, !.input = input, !.MaxTurns = v.MaxTurns]
       /\ IF v.err # ""
          THEN /\ Fail(v.err, "validation error")
               /\ UNCHANGED <<currentAgent, messages, resultMessages, trace>>
          ELSE /\ currentAgent' = a
               /\ messages' = prepareMessages(a, input)
               /\ IF g.err # ""
                  THEN /\ Fail(g.err, g.errMsg)
                       /\ trace' = g.events
                       /\ UNCHANGED resultMessages
                  ELSE /\ trace' = Append(g.events, Event("OnStart", a, 0, "",
                                                         IF onStart THEN "ok" ELSE "error"))
                       /\ IF ~onStart
                          THEN /\ Fail("error in OnStart hook", "")
                               /\ UNCHANGED resultMessages
                          ELSE /\ resultMessages' =
                                     (IF input # "" THEN <<Message("user", input, <<>>, 0)>> ELSE <<>>)
                               /\ pc' = "loop"
                               /\ UNCHANGED <<err, errMsg, result>>
    /\ UNCHANGED <<usage, stepCounter, finalOutput, structuredOutput, stepResult, modelCalls,
                   sent, received, reported, requested>>

(***************************************************************************)
(* Tracing, with a tracer that records (StandardTracer) and a caller's     *)
(* context that holds no span.  A span is its name, whether End has run    *)
(* (completed), and the keys of the attributes set on it.                  *)
(***************************************************************************)
\* StandardTracer.StartSpan: the new span becomes the last of s
StartSpan(s, name) == Append(s, [name |-> name, completed |-> FALSE, attributes |-> {}])

\* StandardSpan.SetAttribute: ignored once the span is completed
SetAttribute(s, i, key) ==
    IF s[i].completed THEN s ELSE [s EXCEPT ![i].attributes = @ \cup {key}]

\* StandardSpan.End: a second call changes nothing
EndSpan(s, i) == [s EXCEPT ![i].completed = TRUE]

\* the span of the run: the first one, started by setupTracing
RunSpan == 1
setupTracing(s) == StartSpan(s, "agent_run")

\* variant: an error of the run is not recorded on its span
recordTracingErrorOmitted(s) == s

\* recordTracingError on the active span of the run's context
recordTracingError(s) == EndSpan(SetAttribute(SetAttribute(s, RunSpan, "output"), RunSpan, "error"), RunSpan)

\* RunWithConfig returns an error: recordTracingError, then the deferred span.End()
abortSpans(s) == EndSpan(recordTracingError(s), RunSpan)

\* applyInputGuardrails: a span only if the agent has input guardrails,
\* ended by the deferred function on every return
inputGuardrailSpans(s, a, gerr) ==
    IF AgentDef(a).InputGuardrails = 0 THEN s
    ELSE LET i == Len(s) + 1
             s1 == StartSpan(s, "input_guardrails")
         IN  EndSpan(IF gerr = ErrGuardrailTripwire
                     THEN SetAttribute(s1, i, "guardrail_triggered") ELSE s1, i)

\* RunWithConfig up to the entry of the loop; verr, gerr: the errors of
\* validateInputsAndSetup and of applyInputGuardrails
runSpans(s, a, verr, gerr, onStart) ==
    IF verr # "" THEN s
    ELSE LET s1 == inputGuardrailSpans(setupTracing(s), a, gerr) IN
         IF gerr # "" \/ ~onStart THEN abortSpans(s1) ELSE s1

\* the "llm_call" span of processAgentStep
llmCallSpans(s, llm) ==
    LET i == Len(s) + 1 IN
    EndSpan(SetAttribute(StartSpan(s, "llm_call"), i, IF llm THEN "success" ELSE "error"), i)

\* executeToolWithTracing, read off the calls it made: the span starts
\* before OnToolStart and the deferred function ends it when the call returns
RECURSIVE toolCallSpans(_, _, _)
toolCallSpans(s, events, k) ==
    IF k > Len(events) THEN s
    ELSE LET e == events[k]
             cur == Len(s)
         IN  CASE e.ev = "OnToolStart" ->
                    toolCallSpans(IF e.out = "error" THEN EndSpan(StartSpan(s, "tool_call"), cur + 1)
                                  ELSE StartSpan(s, "tool_call"), events, k + 1)
               [] e.ev = "Invoke" ->
                    toolCallSpans(IF e.out = "error" THEN EndSpan(SetAttribute(s, cur, "error"), cur)
                                  ELSE s, events, k + 1)
               [] e.ev = "OnToolEnd" ->
                    toolCallSpans(EndSpan(IF e.out = "error" THEN s
                                          ELSE SetAttribute(s, cur, "success"), cur), events, k + 1)
               [] OTHER -> toolCallSpans(s, events, k + 1)

\* processToolCallsAndHandoffs: the "tool_execution" span is started before
\* the scan for a transfer and ended by the deferred function
toolSpans(s, events) ==
    LET i == Len(s) + 1 IN
    EndSpan(toolCallSpans(StartSpan(s, "tool_execution"), events, 1), i)

\* applyOutputGuardrails, read off the checks it made: it is called, and
\* its span started, exactly when a check ran; each of its returns ends the span
outputGuardrailSpans(s, events) ==
    LET outs == {events[k].out : k \in {j \in 1..Len(events) : events[j].ev = "OutputCheck"}}
        i == Len(s) + 1
    IN  IF outs = {} THEN s
        ELSE EndSpan(SetAttribute(StartSpan(s, "output_guardrails"), i,
                                  IF "error" \in outs THEN "error"
                                  ELSE IF "deny" \in outs THEN "guardrail_triggered"
                                  ELSE "success"), i)

\* runSingleTurn: the step span is ended by the deferred function; an error
\* of the turn is an error of the run.  events: the calls made while the
\* response was processed; abort: whether the turn returned an error
stepSpans(s, prompt, llm, message, events, abort) ==
    LET step == Len(s) + 1
        s1 == StartSpan(s, "agent_step")
        failed(x) == abortSpans(EndSpan(SetAttribute(x, step, "error"), step))
    IN  IF ~prompt THEN failed(s1)
        ELSE IF ~llm THEN failed(llmCallSpans(s1, llm))
        ELSE LET s2 == llmCallSpans(s1, llm)
                 s3 == IF Len(message.ToolCalls) > 0 THEN toolSpans(s2, events)
                       ELSE outputGuardrailSpans(s2, events)
             IN  IF abort THEN failed(s3)
                 ELSE EndSpan(SetAttribute(s3, step, "success"), step)

\* handleAgentHandoff: the "handoff" span is ended by the deferred function;
\* failing: the step of the transfer that returned an error (0: none)
handoffSpans(s, handoff, failing) ==
    LET i == Len(s) + 1
        s1 == StartSpan(s, "handoff")
    IN  IF ~handoff THEN s
        ELSE IF failing = 0 THEN EndSpan(SetAttribute(s1, i, "success"), i)
        ELSE abortSpans(EndSpan(IF failing <= 3 THEN SetAttribute(s1, i, "error") ELSE s1, i))

\* the end of RunWithConfig: MaxTurnsExceeded or an OnEnd error is recorded,
\* a Result sets "success"; the deferred function ends the span of the run
finishSpans(s, final, onEnd) ==
    IF ~final \/ ~onEnd THEN abortSpans(s)
    ELSE EndSpan(SetAttribute(SetAttribute(s, RunSpan, "output"), RunSpan, "success"), RunSpan)

\* the calls of RunWithConfig the model makes: every agent with every turn
\* budget and both callbacks configured, an empty input with no callback
\* configured, a configuration without a completion service, and a turn
\* budget of zero and a negative one
RunConfig(maxTurns, provider, callbacks) ==
    [agent |-> NoAgent, input |-> "", MaxTurns |-> maxTurns, ModelProvider |-> provider,
     HandoffCallback |-> callbacks, HandoffInputFilter |-> callbacks, StepDelay |-> 0]

\* the configuration with an inter-turn delay
WithStepDelay(cfg, d) == [cfg EXCEPT !.StepDelay = d]

\* calls: how many invocations the completion service requests at most in the run
Runs ==
    {[agent |-> a, input |-> "hi", config |-> WithStepDelay(RunConfig(n, TRUE, TRUE), MaxStepDelay),
      calls |-> MaxTotalCalls] :
        a \in Agents, n \in 1..MaxTurnsBound}
    \cup {[agent |-> "a1", input |-> "", config |-> RunConfig(MaxTurnsBound, TRUE, FALSE),
           calls |-> MaxTotalCalls],
          [agent |-> "a1", input |-> "hi", config |-> RunConfig(1, FALSE, FALSE),
           calls |-> MaxTotalCalls],
          [agent |-> "a1", input |-> "", config |-> RunConfig(0, TRUE, FALSE),
           calls |-> MaxDefaultRunCalls],
          [agent |-> "a1", input |-> "", config |-> RunConfig(-1, TRUE, FALSE),
           calls |-> MaxDefaultRunCalls]}

Start ==
    \E run \in Runs, onStart \in BOOLEAN :
        \E ig \in OutcomeSeqs(AgentDef(run.agent).InputGuardrails, {"allow", "deny", "error"}) :
            /\ RunWithConfig(run.agent, run.input, run.config, ig, onStart)
            /\ call' = run
            /\ spans' = runSpans(spans, run.agent,
                                 validateInputsAndSetup(run.agent, run.config.MaxTurns,
                                                        run.config.ModelProvider).err,
                                 applyInputGuardrails(run.agent, run.input, ig, 1, <<>>).err,
                                 onStart)
            /\ UNCHANGED <<sleeps, asideVars>>

(***************************************************************************)
(* One iteration of runAgentExecutionLoop                                  *)
(***************************************************************************)
\* variant: the loop with an inclusive bound
turnsRemainInclusive(counter, maxTurns) == counter <= maxTurns

\* the condition of the loop "for state.stepCounter < state.config.MaxTurns"
turnsRemain(counter, maxTurns) == counter < maxTurns

\* "Check if we have a final output"
hasFinalOutput(output) == output # ""

\* variant: the turn that gave the final output is counted as well
stepCounterAfterEveryTurn(counter, output) == counter + 1

\* the end of the loop body: "break" on a final output, else "state.stepCounter++"
stepCounterAfter(counter, output) ==
    IF hasFinalOutput(output) THEN counter ELSE counter + 1

\* variant: the delay is applied before the first turn as well
applyStepDelayEveryTurn(sl, counter, delay, calls, at) ==
    IF delay > 0 THEN Append(sl, [calls |-> calls, at |-> at]) ELSE sl

\* "Apply step delay if needed": time.Sleep(StepDelay) at the head of the loop body.
\* A sleep is recorded with the number of calls of the completion service and
\* of hook, tool and guardrail calls made before it
applyStepDelay(sl, counter, delay, calls, at) ==
    IF counter > 0 /\ delay > 0 THEN Append(sl, [calls |-> calls, at |-> at]) ELSE sl

\* variant: the system message keeps the content it was built with
keepSystemMessage(msgs, a) == msgs

\* runSingleTurn: "Update system message with current instructions if needed"
updateSystemMessage(msgs, a) ==
    IF Len(msgs) > 0 /\ msgs[1].Role = "system"
    THEN [msgs EXCEPT ![1].Content = GetSystemPrompt(a)]
    ELSE msgs

\* variant: a failed call of the completion service is skipped and the loop goes on
runSingleTurnSkippingFailure(prompt, llm, message, fault, gr) ==
    /\ pc = "loop"
    /\ turnsRemain(stepCounter, config.MaxTurns)
    /\ IF ~prompt
       THEN /\ Fail("failed to get instructions", "")
            /\ UNCHANGED <<messages, usage, stepResult, modelCalls, sent, received, reported,
                           requested, trace>>
       ELSE LET withPrompt ==
                    IF Len(messages) > 0 /\ messages[1].Role = "system"
                    THEN [messages EXCEPT ![1].Content = GetSystemPrompt(currentAgent)]
                    ELSE messages
            IN
            /\ messages' = withPrompt
            /\ modelCalls' = modelCalls + 1
            /\ sent' = withPrompt
            /\ IF ~llm
               THEN /\ pc' = "post"
                    /\ UNCHANGED <<err, errMsg, result>>
                    /\ trace' = Append(trace, Event("CreateChatCompletion", currentAgent,
                                                     modelCalls + 1, "", "error"))
                    /\ UNCHANGED <<usage, stepResult, received, reported, requested>>
               ELSE LET r == processResponse(currentAgent, message, fault, gr) IN
                    /\ usage' = accumulateUsage(usage, UsageOf(withPrompt, message))
                    /\ reported' = Append(reported, UsageOf(withPrompt, message))
                    /\ requested' = requested + Len(message.ToolCalls)
                    /\ received' = Append(received, [agent |-> currentAgent, message |-> message])
                    /\ trace' = Append(trace, Event("CreateChatCompletion", currentAgent,
                                                     modelCalls + 1, message.Content, "ok"))
                                \o r.events
                    /\ IF r.err # ""
                       THEN /\ Fail(r.err, r.errMsg)
                            /\ UNCHANGED stepResult
                       ELSE /\ stepResult' = r
                            /\ pc' = "step"
                            /\ UNCHANGED <<err, errMsg, result>>
    /\ UNCHANGED <<config, currentAgent, resultMessages, stepCounter, finalOutput, structuredOutput>>

\* runSingleTurn: instructions, then processAgentStep.
\* prompt: GetSystemPrompt succeeds; llm: CreateChatCompletion succeeds and
\* returns message; fault, gr: what tools, tool hooks and output guardrails do
runSingleTurn(prompt, llm, message, fault, gr) ==
    /\ pc = "loop"
    /\ turnsRemain(stepCounter, config.MaxTurns)
    /\ IF ~prompt
       THEN /\ Fail("failed to get instructions", "")
            /\ UNCHANGED <<messages, usage, stepResult, modelCalls, sent, received, reported,
                           requested, trace>>
       ELSE LET withPrompt == updateSystemMessage(messages, currentAgent)
            IN
            /\ messages' = withPrompt
            /\ modelCalls' = modelCalls + 1
            /\ sent' = withPrompt
            /\ IF ~llm
               THEN /\ Fail("LLM call failed", "")
                    /\ trace' = Append(trace, Event("CreateChatCompletion", currentAgent,
                                                     modelCalls + 1, "", "error"))
                    /\ UNCHANGED <<usage, stepResult, received, reported, requested>>
               ELSE LET r == processResponse(currentAgent, message, fault, gr) IN
                    /\ usage' = accumulateUsage(usage, UsageOf(withPrompt, message))
                    /\ reported' = Append(reported, UsageOf(withPrompt, message))
                    /\ requested' = requested + Len(message.ToolCalls)
                    /\ received' = Append(received, [agent |-> currentAgent, message |-> message])
                    /\ trace' = Append(trace, Event("CreateChatCompletion", currentAgent,
                                                     modelCalls + 1, message.Content, "ok"))
                                \o r.events
                    /\ IF r.err # ""
                       THEN /\ Fail(r.err, r.errMsg)
                            /\ UNCHANGED stepResult
                       ELSE /\ stepResult' = r
                            /\ pc' = "step"
                            /\ UNCHANGED <<err, errMsg, result>>
    /\ UNCHANGED <<config, currentAgent, resultMessages, stepCounter, finalOutput, structuredOutput>>

Turn ==
    /\ pc = "loop"
    /\ \E prompt \in BOOLEAN, llm \in BOOLEAN :
        /\ (~prompt) => AgentDef(currentAgent).instr = "async" /\ llm
        /\ \E message \in (IF prompt /\ llm THEN Responses(modelCalls + 1, call.calls - requested)
                           ELSE {Message("assistant", "", <<>>, 0)}) :
             \E fault \in Faults(currentAgent, message.ToolCalls) :
                \E gr \in (IF Len(message.ToolCalls) = 0
                           THEN OutcomeSeqs(AgentDef(currentAgent).OutputGuardrails, GuardrailOutcomes)
                           ELSE {<<>>}) :
                   /\ runSingleTurn(prompt, llm, message, fault, gr)
                   /\ spans' = stepSpans(spans, prompt, llm, message,
                                         SubSeq(trace', Len(trace) + 2, Len(trace')), pc' = "done")
    /\ sleeps' = applyStepDelay(sleeps, stepCounter, config.StepDelay, modelCalls, Len(trace))
    /\ UNCHANGED <<call, asideVars>>

(***************************************************************************)
(* processStepResult and handleAgentHandoff                                *)
(***************************************************************************)
\* processHandoffCallbacks: the first handoff of the source agent, from j on,
\* whose target is the next agent; 0 if there is none
RECURSIVE findTargetHandoff(_, _, _)
findTargetHandoff(a, nextAgent, j) ==
    IF j > Len(AgentDef(a).Handoffs) THEN 0
    ELSE IF AgentDef(a).Handoffs[j].target = nextAgent THEN j
         ELSE findTargetHandoff(a, nextAgent, j + 1)

\* variant: the target's system message is put in front of the whole buffer
updateMessagesKeepingPrompt(msgs, nextAgent) ==
    <<Message("system", GetSystemPrompt(nextAgent), <<>>, 0)>> \o msgs

\* updateMessagesForNewAgent: the target's system message, then the non-system messages
updateMessagesForNewAgent(msgs, nextAgent) ==
    <<Message("system", GetSystemPrompt(nextAgent), <<>>, 0)>>
    \o SelectSeq(msgs, LAMBDA m : m.Role # "system")

\* the steps of handleAgentHandoff that can fail, in the order they run
HandoffSteps == <<"OnHandoffCallback", "HandoffCallback", "OnHandoff", "HandoffInputFilter",
                  "GetSystemPrompt", "OnStart">>

\* whether step k of HandoffSteps calls into the environment at all
HandoffStepRuns(k, a, nextAgent) ==
    CASE k = 1 -> /\ findTargetHandoff(a, nextAgent, 1) # 0
                  /\ AgentDef(a).Handoffs[findTargetHandoff(a, nextAgent, 1)].onHandoffCB
      [] k = 2 -> config.HandoffCallback
      [] k = 4 -> config.HandoffInputFilter
      [] k = 5 -> AgentDef(nextAgent).instr = "async"
      [] OTHER -> TRUE

\* variant: the OnHandoff hook of the source agent is the one that is called
HandoffEventOnSource(k, a, nextAgent, handoffInput, out) ==
    CASE k = 1 -> <<Event("OnHandoffCallback", a, findTargetHandoff(a, nextAgent, 1), handoffInput, out)>>
      [] k = 2 -> <<[ev |-> "HandoffCallback", agent |-> nextAgent, id |-> 0,
                     arg |-> handoffInput, out |-> out, source |-> a]>>
      [] k = 3 -> <<Event("OnHandoff", a, 0, nextAgent, out)>>
      [] k = 4 -> <<Event("HandoffInputFilter", nextAgent, 0, handoffInput, out)>>
      [] k = 5 -> <<Event("GetSystemPrompt", nextAgent, 0, "", out)>>
      [] OTHER -> <<Event("OnStart", nextAgent, 0, "", out)>>

\* variant: the input guardrails of the target run before its OnStart hook
HandoffEventCheckingInput(k, a, nextAgent, handoffInput, out) ==
    CASE k = 1 -> <<Event("OnHandoffCallback", a, findTargetHandoff(a, nextAgent, 1), handoffInput, out)>>
      [] k = 2 -> <<[ev |-> "HandoffCallback", agent |-> nextAgent, id |-> 0,
                     arg |-> handoffInput, out |-> out, source |-> a]>>
      [] k = 3 -> <<Event("OnHandoff", nextAgent, 0, a, out)>>
      [] k = 4 -> <<Event("HandoffInputFilter", nextAgent, 0, handoffInput, out)>>
      [] k = 5 -> <<Event("GetSystemPrompt", nextAgent, 0, "", out)>>
      [] OTHER -> [i \in 1..AgentDef(nextAgent).InputGuardrails |->
                      Event("InputCheck", nextAgent, i, handoffInput, "allow")]
                  \o <<Event("OnStart", nextAgent, 0, "", out)>>

HandoffEvent(k, a, nextAgent, handoffInput, out) ==
    CASE k = 1 -> <<Event("OnHandoffCallback", a, findTargetHandoff(a, nextAgent, 1), handoffInput, out)>>
      [] k = 2 -> <<[ev |-> "HandoffCallback", agent |-> nextAgent, id |-> 0,
                     arg |-> handoffInput, out |-> out, source |-> a]>>
      [] k = 3 -> <<Event("OnHandoff", nextAgent, 0, a, out)>>
      [] k = 4 -> <<Event("HandoffInputFilter", nextAgent, 0, handoffInput, out)>>
      [] k = 5 -> <<Event("GetSystemPrompt", nextAgent, 0, "", out)>>
      [] OTHER -> <<Event("OnStart", nextAgent, 0, "", out)>>

\* the calls handleAgentHandoff makes from step k on when step `failing` returns
\* an error (0: none does)
RECURSIVE HandoffEvents(_, _, _, _, _)
HandoffEvents(k, failing, a, nextAgent, handoffInput) ==
    IF k > Len(HandoffSteps) \/ (failing # 0 /\ k > failing) THEN <<>>
    ELSE (IF HandoffStepRuns(k, a, nextAgent)
          THEN HandoffEvent(k, a, nextAgent, handoffInput, IF k = failing THEN "error" ELSE "ok")
          ELSE <<>>)
         \o HandoffEvents(k + 1, failing, a, nextAgent, handoffInput)

HandoffError(k) ==
    CASE k = 1 -> "handoff callback failed"
      [] k = 2 -> "handoff callback failed"
      [] k = 3 -> "error in OnHandoff hook"
      [] k = 4 -> "handoff input filter failed"
      [] k = 5 -> "failed to get instructions for next agent"
      [] OTHER -> "error in OnStart hook for next agent"

\* variant: the history is taken from the buffer sent to the completion service
processStepResultSharingBuffer(failing) ==
    /\ pc = "step"
    /\ messages' = IF stepResult.nextAgent # NoAgent /\ (failing = 0 \/ failing = 6)
                   THEN updateMessagesForNewAgent(messages \o stepResult.messages, stepResult.nextAgent)
                   ELSE messages \o stepResult.messages
    /\ resultMessages' = messages \o stepResult.messages
    /\ stepResult' = NoStep
    /\ IF stepResult.nextAgent # NoAgent
       THEN /\ trace' = trace \o HandoffEvents(1, failing, currentAgent, stepResult.nextAgent,
                                               stepResult.handoffInput)
            /\ currentAgent' = IF failing = 0 \/ failing = 6 THEN stepResult.nextAgent ELSE currentAgent
            /\ IF failing # 0
               THEN Fail(HandoffError(failing), "")
               ELSE /\ pc' = "post"
                    /\ UNCHANGED <<err, errMsg, result>>
            /\ UNCHANGED <<finalOutput, structuredOutput>>
       ELSE /\ IF hasFinalOutput(stepResult.finalOutput)
               THEN /\ finalOutput' = stepResult.finalOutput
                    /\ structuredOutput' = stepResult.structuredOutput
               ELSE UNCHANGED <<finalOutput, structuredOutput>>
            /\ pc' = "post"
            /\ UNCHANGED <<currentAgent, trace, err, errMsg, result>>
    /\ UNCHANGED <<config, usage, stepCounter, modelCalls, sent, received, reported, requested>>

\* failing: the step of HandoffSteps that returns an error, 0 if none does
processStepResult(failing) ==
    /\ pc = "step"
    /\ messages' = IF stepResult.nextAgent # NoAgent /\ (failing = 0 \/ failing = 6)
                   THEN updateMessagesForNewAgent(messages \o stepResult.messages, stepResult.nextAgent)
                   ELSE messages \o stepResult.messages
    /\ resultMessages' = resultMessages \o stepResult.messages
    /\ stepResult' = NoStep
    /\ IF stepResult.nextAgent # NoAgent
       THEN /\ trace' = trace \o HandoffEvents(1, failing, currentAgent, stepResult.nextAgent,
                                               stepResult.handoffInput)
            /\ currentAgent' = IF failing = 0 \/ failing = 6 THEN stepResult.nextAgent ELSE currentAgent
            /\ IF failing # 0
               THEN Fail(HandoffError(failing), "")
               ELSE /\ pc' = "post"
                    /\ UNCHANGED <<err, errMsg, result>>
            /\ UNCHANGED <<finalOutput, structuredOutput>>
       ELSE /\ IF hasFinalOutput(stepResult.finalOutput)
               THEN /\ finalOutput' = stepResult.finalOutput
                    /\ structuredOutput' = stepResult.structuredOutput
               ELSE UNCHANGED <<finalOutput, structuredOutput>>
            /\ pc' = "post"
            /\ UNCHANGED <<currentAgent, trace, err, errMsg, result>>
    /\ UNCHANGED <<config, usage, stepCounter, modelCalls, sent, received, reported, requested>>

ProcessStep ==
    /\ pc = "step"
    /\ \E failing \in 0..Len(HandoffSteps) :
          /\ failing # 0 => /\ stepResult.nextAgent # NoAgent
                            /\ HandoffStepRuns(failing, currentAgent, stepResult.nextAgent)
          /\ processStepResult(failing)
          /\ spans' = handoffSpans(spans, stepResult.nextAgent # NoAgent, failing)
    /\ UNCHANGED <<call, sleeps, asideVars>>

\* the end of the loop body: break on a final output, else count the turn
LoopTail ==
    /\ pc = "post"
    /\ pc' = IF hasFinalOutput(finalOutput) THEN "end" ELSE "loop"
    /\ stepCounter' = stepCounterAfter(stepCounter, finalOutput)
    /\ UNCHANGED <<config, currentAgent, messages, resultMessages, usage, finalOutput,
                   structuredOutput, stepResult, result, err, errMsg, modelCalls, sent,
                   received, reported, requested, trace>>
    /\ UNCHANGED <<call, spans, sleeps, asideVars>>

\* convertModelMessages copies the messages field by field
convertModelMessages(msgs) ==
    [i \in 1..Len(msgs) |-> Message(msgs[i].Role, msgs[i].Content, msgs[i].ToolCalls, msgs[i].ToolCallID)]

\* variant: the Result built before the OnEnd hook is returned with its error
finishRunKeepingResult(onEnd) ==
    /\ \/ pc = "end"
       \/ pc = "loop" /\ ~turnsRemain(stepCounter, config.MaxTurns)
    /\ IF ~hasFinalOutput(finalOutput)
       THEN /\ Fail(ErrMaxTurnsExceeded, "")
            /\ UNCHANGED trace
       ELSE /\ trace' = Append(trace, Event("OnEnd", currentAgent, 0,
                                            IF structuredOutput # Nil THEN structuredOutput
                                            ELSE finalOutput,
                                            IF onEnd THEN "ok" ELSE "error"))
            /\ pc' = "done"
            /\ result' = [FinalOutput |-> finalOutput,
                          StructuredOutput |-> structuredOutput,
                          LastAgent |-> currentAgent,
                          History |-> convertModelMessages(resultMessages),
                          Usage |-> usage]
            /\ err' = IF onEnd THEN "" ELSE "error in OnEnd hook"
            /\ UNCHANGED errMsg
    /\ UNCHANGED <<config, currentAgent, messages, resultMessages, usage, stepCounter, finalOutput,
                   structuredOutput, stepResult, modelCalls, sent, received, reported, requested>>

\* variant: the Result names the agent the run started with
finishRunStartingAgent(onEnd) ==
    /\ \/ pc = "end"
       \/ pc = "loop" /\ ~turnsRemain(stepCounter, config.MaxTurns)
    /\ IF ~hasFinalOutput(finalOutput)
       THEN /\ Fail(ErrMaxTurnsExceeded, "")
            /\ UNCHANGED trace
       ELSE /\ trace' = Append(trace, Event("OnEnd", currentAgent, 0,
                                            IF structuredOutput # Nil THEN structuredOutput
                                            ELSE finalOutput,
                                            IF onEnd THEN "ok" ELSE "error"))
            /\ IF ~onEnd
               THEN Fail("error in OnEnd hook", "")
               ELSE /\ pc' = "done"
                    /\ result' = [FinalOutput |-> finalOutput,
                                  StructuredOutput |-> structuredOutput,
                                  LastAgent |-> config.agent,
                                  History |-> convertModelMessages(resultMessages),
                                  Usage |-> usage]
                    /\ UNCHANGED <<err, errMsg>>
    /\ UNCHANGED <<config, currentAgent, messages, resultMessages, usage, stepCounter, finalOutput,
                   structuredOutput, stepResult, modelCalls, sent, received, reported, requested>>

\* after the loop: MaxTurnsExceeded, or the Result and the OnEnd hook
finishRun(onEnd) ==
    /\ \/ pc = "end"
       \/ pc = "loop" /\ ~turnsRemain(stepCounter, config.MaxTurns)
    /\ IF ~hasFinalOutput(finalOutput)
       THEN /\ Fail(ErrMaxTurnsExceeded, "")
            /\ UNCHANGED trace
       ELSE /\ trace' = Append(trace, Event("OnEnd", currentAgent, 0,
                                            IF structuredOutput # Nil THEN structuredOutput
                                            ELSE finalOutput,
                                            IF onEnd THEN "ok" ELSE "error"))
            /\ IF ~onEnd
               THEN Fail("error in OnEnd hook", "")
               ELSE /\ pc' = "done"
                    /\ result' = [FinalOutput |-> finalOutput,
                                  StructuredOutput |-> structuredOutput,
                                  LastAgent |-> currentAgent,
                                  History |-> convertModelMessages(resultMessages),
                                  Usage |-> usage]
                    /\ UNCHANGED <<err, errMsg>>
    /\ UNCHANGED <<config, currentAgent, messages, resultMessages, usage, stepCounter, finalOutput,
                   structuredOutput, stepResult, modelCalls, sent, received, reported, requested>>

Finish ==
    \E onEnd \in BOOLEAN :
        /\ (~onEnd) => hasFinalOutput(finalOutput)
        /\ finishRun(onEnd)
        /\ spans' = finishSpans(spans, hasFinalOutput(finalOutput), onEnd)
        /\ UNCHANGED <<call, sleeps, asideVars>>

Next == Start \/ Turn \/ ProcessStep \/ LoopTail \/ Finish

Spec == Init /\ [][Next]_vars

(***************************************************************************)
(* A run whose caller cancels the context.  The engine hands the context   *)
(* to the completion service, the tools and the hooks, and never reads     *)
(* ctx.Done() or ctx.Err() itself; what a callee does with a cancelled     *)
(* context is the callee's choice, which Turn leaves open.                 *)
(***************************************************************************)
\* the caller cancels while RunWithConfig is between two of its steps,
\* the inter-turn delay included
Cancel ==
    /\ pc \in {"loop", "step", "post", "end"}
    /\ cancelledAt = NotCancelled
    /\ cancelledAt' = modelCalls
    /\ UNCHANGED <<runnerVars, registryVars, cloneVars, batchVars>>

NextCancel == Start \/ Turn \/ ProcessStep \/ LoopTail \/ Finish \/ Cancel

SpecCancel == Init /\ [][NextCancel]_vars

(***************************************************************************)
(* Registry.CanHandoff, called by concurrent callers.  A call takes the    *)
(* mutex, reads the time, checks the same key, checks the reverse key,     *)
(* records the transfer, and releases the mutex when it returns.           *)
(***************************************************************************)
Has(m, key) == key \in DOMAIN m
\* variant: the write replaces the map by the one entry
PutAlone(m, key, v) == [k \in {key} |-> v]

\* m[key] = v
Put(m, key, v) == [k \in DOMAIN m \cup {key} |-> IF k = key THEN v ELSE m[k]]

\* return: the deferred Unlock, and the verdict handed to the caller
Return(t, allowed, reason) ==
    /\ verdicts' = Append(verdicts, [from |-> callers[t].from, to |-> callers[t].to,
                                      allowed |-> allowed, reason |-> reason,
                                      at |-> callers[t].now,
                                      overlapped |-> callers[t].overlapped])
    /\ callers' = [callers EXCEPT ![t] = IdleCaller]
    /\ mutex' = 0

\* time passes
Tick ==
    /\ clock < MaxTime
    /\ clock' = clock + 1
    /\ UNCHANGED <<recentHandoffs, mutex, callers, verdicts, nonRegistryVars>>

\* a caller enters CanHandoff(from, to)
Call(t, c) ==
    /\ callers[t].pc = "idle"
    /\ Len(verdicts) + Cardinality({u \in Callers : callers[u].pc # "idle"}) < MaxRegistryCalls
    /\ callers' = [u \in Callers |->
                      IF u = t
                      THEN [pc |-> "lock", from |-> c.from, to |-> c.to, now |-> 0,
                            overlapped |-> \E v \in Callers : callers[v].pc # "idle"]
                      ELSE IF callers[u].pc # "idle"
                           THEN [callers[u] EXCEPT !.overlapped = TRUE]
                           ELSE callers[u]]
    /\ UNCHANGED <<recentHandoffs, mutex, clock, verdicts, nonRegistryVars>>

\* r.mutex.Lock()
Lock(t) ==
    /\ callers[t].pc = "lock"
    /\ mutexFree(mutex)
    /\ mutex' = t
    /\ callers' = [callers EXCEPT ![t].pc = "recent"]
    /\ UNCHANGED <<recentHandoffs, clock, verdicts, nonRegistryVars>>

\* now := time.Now() and the check of the same key
CheckRecent(t) ==
    /\ callers[t].pc = "recent"
    /\ LET key == HandoffKey(callers[t].from, callers[t].to) IN
        IF Has(recentHandoffs, key) /\ clock - recentHandoffs[key] < MinInterval
        THEN /\ verdicts' = Append(verdicts, [from |-> callers[t].from, to |-> callers[t].to,
                                              allowed |-> FALSE,
                                              reason |-> TooSoonReason(callers[t].from, callers[t].to),
                                              at |-> clock,
                                              overlapped |-> callers[t].overlapped])
             /\ callers' = [callers EXCEPT ![t] = IdleCaller]
             /\ mutex' = 0
        ELSE /\ callers' = [callers EXCEPT ![t].pc = "loop", ![t].now = clock]
             /\ UNCHANGED <<mutex, verdicts>>
    /\ UNCHANGED <<recentHandoffs, clock, nonRegistryVars>>

\* the check of the reverse key
CheckLoop(t) ==
    /\ callers[t].pc = "loop"
    /\ LET reverseKey == HandoffKey(callers[t].to, callers[t].from) IN
        IF /\ Has(recentHandoffs, reverseKey)
           /\ callers[t].now - recentHandoffs[reverseKey] < MinInterval * 2
        THEN Return(t, FALSE, LoopReason(callers[t].from, callers[t].to))
        ELSE /\ callers' = [callers EXCEPT ![t].pc = "record"]
             /\ UNCHANGED <<mutex, verdicts>>
    /\ UNCHANGED <<recentHandoffs, clock, nonRegistryVars>>

\* r.recentHandoffs[key] = now; return true, ""
Record(t) ==
    /\ callers[t].pc = "record"
    /\ recentHandoffs' = Put(recentHandoffs, HandoffKey(callers[t].from, callers[t].to),
                             callers[t].now)
    /\ Return(t, TRUE, "")
    /\ UNCHANGED <<clock, nonRegistryVars>>

CallAny == \E t \in Callers, c \in RegistryCalls : Call(t, c)
LockAny == \E t \in Callers : Lock(t)
CheckRecentAny == \E t \in Callers : CheckRecent(t)
CheckLoopAny == \E t \in Callers : CheckLoop(t)
RecordAny == \E t \in Callers : Record(t)

NextRegistry == Tick \/ CallAny \/ LockAny \/ CheckRecentAny \/ CheckLoopAny \/ RecordAny

SpecRegistry == Init /\ [][NextRegistry]_vars

(***************************************************************************)
(* Agent.Clone and the list operations on an agent a and its clone c       *)
(***************************************************************************)
\* a.AddTool, a.AddHandoff, a.AddInputGuardrail, a.AddOutputGuardrail
AddTo(x, f) ==
    /\ ops < MaxOps
    /\ x = "c" => cloned
    /\ heap' = AppendHeap(heap, lists[x][f], ops + 1)
    /\ lists' = [lists EXCEPT ![x][f] = AppendSlice(heap, lists[x][f])]
    /\ ops' = ops + 1
    /\ lastOp' = x
    /\ UNCHANGED <<cloned, instructionFields, nonCloneVars>>

\* x.F[i] = v
Assign(x, f, i) ==
    /\ ops < MaxOps
    /\ x = "c" => cloned
    /\ i \in 1..lists[x][f].len
    /\ heap' = [heap EXCEPT ![lists[x][f].arr][i] = ops + 1]
    /\ ops' = ops + 1
    /\ lastOp' = x
    /\ UNCHANGED <<lists, cloned, instructionFields, nonCloneVars>>

\* c := a.Clone()
Clone ==
    /\ ~cloned
    /\ cloned' = TRUE
    /\ heap' = CloneHeap(heap, lists["a"])
    /\ lists' = [lists EXCEPT !["c"] = CloneLists(heap, lists["a"])]
    /\ instructionFields' =
           [instructionFields EXCEPT !["c"] = CloneInstructions(instructionFields["a"])]
    /\ lastOp' = ""
    /\ UNCHANGED <<ops, nonCloneVars>>

AddAny == \E x \in {"a", "c"}, f \in ListFields : AddTo(x, f)
AssignAny == \E x \in {"a", "c"}, f \in ListFields, i \in 1..MaxOps : Assign(x, f, i)

NextClone == AddAny \/ AssignAny \/ Clone

SpecClone == Init /\ [][NextClone]_vars

\* x.Instructions = text, x.SetDynamicInstructions(f), x.SetAsyncDynamicInstructions(f)
SetField(x, field, v) ==
    /\ x = "c" => cloned
    /\ instructionFields[x][field] # v
    /\ instructionFields' = [instructionFields EXCEPT ![x][field] = v]
    /\ lastOp' = x
    /\ UNCHANGED <<heap, lists, cloned, ops, nonCloneVars>>

SetInstructions ==
    \E x \in {"a", "c"}, text \in InstructionTexts : SetField(x, "Instructions", text)
SetDynamicInstructions ==
    \E x \in {"a", "c"}, f \in InstructionsFuncs : SetField(x, "dynamicInstructions", f)
SetAsyncDynamicInstructions ==
    \E x \in {"a", "c"}, f \in AsyncInstructionsFuncs :
        SetField(x, "asyncDynamicInstructions", f)

NextCloneInstructions ==
    SetInstructions \/ SetDynamicInstructions \/ SetAsyncDynamicInstructions \/ Clone

SpecCloneInstructions == Init /\ [][NextCloneInstructions]_vars

(***************************************************************************)
(* Tracing with a BatchSpanProcessor: spans that end, the goroutine of     *)
(* processLoop, ForceFlush, and concurrent calls of Shutdown.  One action  *)
(* is one communication or one critical section of the code.               *)
(***************************************************************************)
\* tracer := NewStandardTracer(processor), as the tests set it up
NewStandardTracer ==
    /\ processorLists.tracer = <<>>
    /\ processorLists' = [tracer |-> <<"batch">>, global |-> <<>>]
    /\ UNCHANGED <<processor, processLoop, shutdowns, ended, exported, closes, nonBatchVars>>

\* EnableTracing: the processor is appended to spanProcessors and is the
\* processor of the new global tracer
EnableTracing ==
    /\ processorLists.tracer = <<>>
    /\ processorLists' = [tracer |-> <<"batch">>, global |-> <<"batch">>]
    /\ UNCHANGED <<processor, processLoop, shutdowns, ended, exported, closes, nonBatchVars>>

\* span.End() up to "s.completed = true": a second call returns at once
End(s) ==
    /\ processorLists.tracer # <<>>
    /\ ended[s].pending = 0
    /\ ended' = [ended EXCEPT ![s].completed = TRUE,
                              ![s].pending =
                                  IF ended[s].completed THEN 0
                                  ELSE NotifySpanEnded(processorLists.tracer,
                                                       processorLists.global)]
    /\ UNCHANGED <<processor, processLoop, shutdowns, processorLists, exported, closes,
                   nonBatchVars>>

\* the next processor.OnEnd(s) of span.End(): ProcessSpan
OnEnd(s) ==
    /\ ended[s].pending > 0
    /\ processor' = ProcessSpan(processor, s)
    /\ LET accepted == IF queueHasRoom(processor) THEN 1 ELSE 0
           early == IF \A c \in ShutdownCallers : shutdowns[c].pc = "idle" THEN accepted ELSE 0
       IN  ended' = [ended EXCEPT ![s].pending = @ - 1,
                                  ![s].delivered = @ + 1,
                                  ![s].accepted = @ + accepted,
                                  ![s].early = @ + early]
    /\ UNCHANGED <<processLoop, shutdowns, processorLists, exported, closes, nonBatchVars>>

\* exportBatch: the batch is swapped for an empty one under the mutex and exported
exportBatch(p) ==
    /\ processor' = [p EXCEPT !.spans = <<>>]
    /\ exported' = export(exported, p.spans)

\* the goroutine starts: p.wg.Add(1)
LoopStart ==
    /\ processLoop = "spawned"
    /\ processLoop' = "select"
    /\ processor' = [processor EXCEPT !.wg = @ + 1]
    /\ UNCHANGED <<shutdowns, processorLists, ended, exported, closes, nonBatchVars>>

\* "case <-p.done": export the batch and return; the deferred p.wg.Done()
LoopDone ==
    /\ processLoop = "select"
    /\ processor.done
    /\ exportBatch([takeNothing(processor) EXCEPT !.wg = @ - 1])
    /\ processLoop' = "returned"
    /\ UNCHANGED <<shutdowns, processorLists, ended, closes, nonBatchVars>>

\* "case <-ticker.C", with a batch to export
LoopTick ==
    /\ processLoop = "select"
    /\ processor.spans # <<>>
    /\ exportBatch(processor)
    /\ UNCHANGED <<processLoop, shutdowns, processorLists, ended, closes, nonBatchVars>>

\* "case <-p.exportTrigger"
LoopTrigger ==
    /\ processLoop = "select"
    /\ processor.exportTrigger = 1
    /\ exportBatch([processor EXCEPT !.exportTrigger = 0])
    /\ UNCHANGED <<processLoop, shutdowns, processorLists, ended, closes, nonBatchVars>>

\* "case span := <-p.queue": append, and export when the batch is full
LoopQueue ==
    /\ processLoop = "select"
    /\ processor.queue # <<>>
    /\ LET batch == Append(processor.spans, Head(processor.queue))
           full == Len(batch) >= MaxBatchSize
       IN  /\ processor' = [processor EXCEPT !.queue = Tail(@),
                                             !.spans = IF full THEN <<>> ELSE batch]
           /\ exported' = IF full THEN export(exported, batch) ELSE exported
    /\ UNCHANGED <<processLoop, shutdowns, processorLists, ended, closes, nonBatchVars>>

\* processor.ForceFlush() by a caller, with a batch to export
ForceFlush ==
    /\ processor.spans # <<>>
    /\ exportBatch(processor)
    /\ UNCHANGED <<processLoop, shutdowns, processorLists, ended, closes, nonBatchVars>>

\* Shutdown(ctx) up to p.mu.Unlock(); ctx: "background", or "deadline" for a
\* context that can be done before the goroutine has returned
ShutdownLock(c, ctx) ==
    /\ processorLists.tracer # <<>>
    /\ shutdowns[c].pc = "idle"
    /\ IF alreadyClosed(processor)
       THEN /\ shutdowns' = [shutdowns EXCEPT ![c].pc = "exporter", ![c].ctx = ctx,
                                              ![c].alreadyClosed = TRUE]
            /\ UNCHANGED <<processor, closes>>
       ELSE /\ shutdowns' = [shutdowns EXCEPT ![c].pc = "wait", ![c].ctx = ctx]
            /\ processor' = [processor EXCEPT !.done = TRUE]
            /\ closes' = closes + 1
    /\ UNCHANGED <<processLoop, processorLists, ended, exported, nonBatchVars>>

\* "case <-doneCh": p.wg.Wait() has returned
ShutdownWait(c) ==
    /\ shutdowns[c].pc = "wait"
    /\ processor.wg = 0
    /\ shutdowns' = [shutdowns EXCEPT ![c].pc = "exporter"]
    /\ UNCHANGED <<processor, processLoop, processorLists, ended, exported, closes,
                   nonBatchVars>>

\* "case <-ctx.Done(): err = ctx.Err()"
ShutdownTimeout(c) ==
    /\ shutdowns[c].pc = "wait"
    /\ shutdowns[c].ctx = "deadline"
    /\ shutdowns' = [shutdowns EXCEPT ![c].pc = "exporter",
                                      ![c].err = "context deadline exceeded"]
    /\ UNCHANGED <<processor, processLoop, processorLists, ended, exported, closes,
                   nonBatchVars>>

\* p.exporter.Shutdown(ctx), which succeeds or not, and the return
ShutdownExporter(c, ok) ==
    /\ shutdowns[c].pc = "exporter"
    /\ shutdowns' = [shutdowns EXCEPT
                        ![c].pc = "returned",
                        ![c].exporterOk = ok,
                        ![c].err = IF @ # "" THEN @
                                   ELSE IF ok THEN "" ELSE "exporter shutdown failed",
                        ![c].complete = \A s \in SpanIDs : exported[s] = ended[s].early]
    /\ UNCHANGED <<processor, processLoop, processorLists, ended, exported, closes,
                   nonBatchVars>>

EndAny == \E s \in SpanIDs : End(s)
OnEndAny == \E s \in SpanIDs : OnEnd(s)
ShutdownLockAny ==
    \E c \in ShutdownCallers, ctx \in {"background", "deadline"} : ShutdownLock(c, ctx)
ShutdownWaitAny == \E c \in ShutdownCallers : ShutdownWait(c)
ShutdownTimeoutAny == \E c \in ShutdownCallers : ShutdownTimeout(c)
ShutdownExporterOf(c) == \E ok \in BOOLEAN : ShutdownExporter(c, ok)
ShutdownExporterAny == \E c \in ShutdownCallers : ShutdownExporterOf(c)

NextBatch ==
    \/ NewStandardTracer \/ EnableTracing \/ EndAny \/ OnEndAny
    \/ LoopStart \/ LoopDone \/ LoopTick \/ LoopTrigger \/ LoopQueue \/ ForceFlush
    \/ ShutdownLockAny \/ ShutdownWaitAny \/ ShutdownTimeoutAny \/ ShutdownExporterAny

SpecBatch == Init /\ [][NextBatch]_vars

\* The goroutine is scheduled, a select whose done case can proceed takes it
\* in the end (the choice among the ready cases is random), and a Shutdown
\* call that can go on does.
SpecBatchLive ==
    /\ SpecBatch
    /\ WF_vars(LoopStart)
    /\ WF_vars(LoopDone)
    /\ \A c \in ShutdownCallers : WF_vars(ShutdownWait(c)) /\ WF_vars(ShutdownExporterOf(c))

(***************************************************************************)
(* Observations on a run, used to state the properties                     *)
(***************************************************************************)
Last == Len(received)
HasCalls(n) == Len(received[n].message.ToolCalls) > 0
CallsOf(n) == received[n].message.ToolCalls

\* the number of the completion-service call in whose turn event k happened
TurnOf(k) == Cardinality({j \in 1..k : trace[j].ev = "CreateChatCompletion"})

\* invocation ids are 10 * turn + position
TurnOfCall(id) == id \div 10

Failed(k) == trace[k].out \in {"error", "deny"}

HandoffCalls == {"OnHandoffCallback", "HandoffCallback", "OnHandoff", "HandoffInputFilter"}

\* the turns in which a transfer was taken
TransferTurns ==
    {TurnOf(k) : k \in {j \in 1..Len(trace) : trace[j].ev \in HandoffCalls}}
    \cup (IF pc = "step" /\ stepResult.nextAgent # NoAgent THEN {modelCalls} ELSE {})

NonSystem(msgs) == SelectSeq(msgs, LAMBDA m : m.Role # "system")

LastN(seq, n) == SubSeq(seq, Len(seq) - n + 1, Len(seq))

\* msgs answers calls: one tool-role message per invocation, in order, with its id
Answers(msgs, calls) ==
    /\ Len(msgs) = Len(calls)
    /\ \A k \in 1..Len(calls) : msgs[k].Role = "tool" /\ msgs[k].ToolCallID = calls[k].ID

\* every response so far carried only invocations of registered tools, and
\* nothing the engine called has failed
ToolOnlyRun ==
    /\ modelCalls > 0
    /\ Last = modelCalls
    /\ \A n \in 1..Last :
          /\ HasCalls(n)
          /\ \A c \in 1..Len(CallsOf(n)) : findTool(received[n].agent, CallsOf(n)[c].Name)
    /\ \A k \in 1..Len(trace) : ~Failed(k)

\* C1: turn budget.  With MaxTurns = N the completion service is never called
\* more than N times; MaxTurnsExceeded is returned after exactly N calls and
\* without a Result; and a run whose every response carries only invocations
\* of registered tools that succeed can only end that way.
TurnBudget ==
    /\ modelCalls <= config.MaxTurns
    /\ err = ErrMaxTurnsExceeded =>
          pc = "done" /\ modelCalls = config.MaxTurns /\ result = NoResult
    /\ (pc = "done" /\ ToolOnlyRun) =>
          err = ErrMaxTurnsExceeded /\ modelCalls = config.MaxTurns /\ result = NoResult

TurnBudgetWitness ==
    /\ pc = "done"
    /\ ToolOnlyRun
    /\ config.MaxTurns = 2
    /\ modelCalls = 2
    /\ err = ErrMaxTurnsExceeded

\* C2: an input guardrail of the starting agent that disallows ends the run
\* at once with GuardrailTripwire and that check's message; the completion
\* service is not called and no turn is started.
InputTripwire ==
    \A k \in 1..Len(trace) :
        (trace[k].ev = "InputCheck" /\ trace[k].out = "deny") =>
            /\ k = Len(trace)
            /\ trace[k].agent = config.agent
            /\ pc = "done"
            /\ err = ErrGuardrailTripwire
            /\ errMsg = InputGuardrailMessage(trace[k].id)
            /\ result = NoResult
            /\ modelCalls = 0
            /\ stepCounter = 0
            /\ received = <<>>

InputTripwireWitness ==
    /\ pc = "done"
    /\ Len(trace) = 2
    /\ trace[1].ev = "InputCheck" /\ trace[1].out = "allow"
    /\ trace[2].ev = "InputCheck" /\ trace[2].out = "deny"
    /\ errMsg = InputGuardrailMessage(2)

\* C3: transfer continuity.  The step that takes a transfer leaves a buffer
\* made of one system message, first, holding the target's instructions,
\* followed by every non-system message of the buffer and of the turn in their
\* order; the turn counter keeps its value.
TransferContinuity ==
    [][(pc = "step" /\ stepResult.nextAgent # NoAgent /\ pc' = "post") =>
          LET prior == NonSystem(messages \o stepResult.messages) IN
          /\ currentAgent' = stepResult.nextAgent
          /\ Len(messages') = Len(prior) + 1
          /\ messages'[1] = Message("system", GetSystemPrompt(stepResult.nextAgent), <<>>, 0)
          /\ \A i \in 1..Len(prior) : messages'[i + 1] = prior[i]
          /\ \A i \in 2..Len(messages') : messages'[i].Role # "system"
          /\ Len(prior) >= Len(NonSystem(messages)) + 1
          /\ stepCounter' = stepCounter]_vars

TransferContinuityWitness ==
    /\ pc = "post"
    /\ Last \in TransferTurns
    /\ currentAgent = "a2"
    /\ stepCounter = 1
    /\ Len(messages) = 5
    /\ messages[1].Content = GetSystemPrompt("a2")
    /\ messages[4].Role = "tool"

RECURSIVE SumUsage(_)
SumUsage(us) ==
    IF us = <<>> THEN ZeroUsage
    ELSE LET rest == SumUsage(Tail(us)) IN
         [PromptTokens |-> us[1].PromptTokens + rest.PromptTokens,
          CompletionTokens |-> us[1].CompletionTokens + rest.CompletionTokens,
          TotalTokens |-> us[1].TotalTokens + rest.TotalTokens]

\* C4: usage accumulation.  The running usage is the component-wise sum of
\* what each call reported, and the Result of a successful run carries that
\* sum with every call of the run counted once.
UsageAccumulation ==
    /\ usage = SumUsage(reported)
    /\ result # NoResult =>
          /\ Len(reported) = modelCalls
          /\ result.Usage = SumUsage(reported)

UsageAccumulationWitness ==
    /\ result # NoResult
    /\ modelCalls = 3
    /\ 2 \in TransferTurns
    /\ \E i \in 1..Len(result.History) : result.History[i].Role = "tool"
    /\ result.LastAgent # config.agent
    /\ result.Usage.TotalTokens # result.Usage.PromptTokens + result.Usage.CompletionTokens

\* C5: transfer precedence.  In a turn whose transfer is taken the step
\* yields the assistant message alone; no tool hook or tool runs in that turn
\* and no tool-role message answers an invocation of that turn.
\* (The second copy of the engine kept in the same source file, lines
\* 1423-1491, dispatches the other invocations in list order and still takes
\* the transfer; processToolCallsThenHandoff has that shape.)
TransferPrecedence ==
    /\ (pc = "step" /\ stepResult.nextAgent # NoAgent) =>
          stepResult.messages = <<received[Last].message>>
    /\ \A k \in 1..Len(trace) : trace[k].ev \in Stages => TurnOf(k) \notin TransferTurns
    /\ \A msgs \in {messages, resultMessages, stepResult.messages} :
          \A i \in 1..Len(msgs) :
              msgs[i].Role = "tool" => TurnOfCall(msgs[i].ToolCallID) \notin TransferTurns

TransferPrecedenceWitness ==
    /\ pc = "post"
    /\ Last = 1
    /\ 1 \in TransferTurns
    /\ currentAgent = "a2"
    /\ Len(CallsOf(1)) = 2
    /\ CallsOf(1)[1].Name = "foo"
    /\ CallsOf(1)[2].Name = TransferSimple

\* C6: a response that carries an invocation request is never the final
\* output: no output parsing and no output guardrail runs in its turn, no
\* final output is recorded while it is the latest response, and the run
\* cannot end successfully on it.
InvocationsNeverFinal ==
    /\ \A k \in 1..Len(trace) :
          (trace[k].ev \in {"Unmarshal", "OutputCheck", "OnEnd"} /\ TurnOf(k) <= Last) =>
              ~HasCalls(TurnOf(k))
    /\ (pc = "step" /\ HasCalls(Last)) =>
          stepResult.finalOutput = "" /\ stepResult.structuredOutput = Nil
    /\ (Last > 0 /\ HasCalls(Last)) =>
          /\ finalOutput = ""
          /\ structuredOutput = Nil
          /\ result = NoResult
          /\ pc # "end"
          /\ pc = "done" => err # ""

InvocationsNeverFinalWitness ==
    /\ result # NoResult
    /\ Last = 2
    /\ HasCalls(1)
    /\ received[1].message.Content = "thinking"
    /\ result.FinalOutput = "done"

\* C7 as stated: a response without invocation requests ends the loop,
\* whatever its content; no completion-service call follows it.
NoInvocationResponseEndsLoop ==
    \A n \in 1..Last : ~HasCalls(n) => (n = Last /\ modelCalls = n)

\* C8: tool round.  When no transfer is taken the step yields the assistant
\* message followed by one tool-role message per invocation, in order and
\* with its id; the registered tools are invoked in the order of the
\* response; and that block is what the turn appends to the buffer and to
\* the history.
ToolRound ==
    /\ (pc = "step" /\ HasCalls(Last) /\ stepResult.nextAgent = NoAgent) =>
          LET calls == CallsOf(Last)
              invoked == SelectSeq(trace, LAMBDA e : e.ev = "Invoke" /\ TurnOfCall(e.id) = Last)
              registered == SelectSeq(calls, LAMBDA c : findTool(received[Last].agent, c.Name))
          IN  /\ stepResult.messages[1] = received[Last].message
              /\ Answers(Tail(stepResult.messages), calls)
              /\ Len(invoked) = Len(registered)
              /\ \A i \in 1..Len(registered) : invoked[i].id = registered[i].ID
    /\ (pc = "post" /\ HasCalls(Last) /\ Last \notin TransferTurns) =>
          LET calls == CallsOf(Last) IN
          \A msgs \in {messages, resultMessages} :
              /\ Len(msgs) >= Len(calls) + 1
              /\ msgs[Len(msgs) - Len(calls)] = received[Last].message
              /\ Answers(LastN(msgs, Len(calls)), calls)

ToolRoundWitness ==
    /\ pc = "post"
    /\ Last = 1
    /\ Last \notin TransferTurns
    /\ Len(CallsOf(1)) = 2
    /\ CallsOf(1)[1].Name = "foo"
    /\ CallsOf(1)[2].Name = "foo"
    /\ resultMessages[Len(resultMessages)].ToolCallID = CallsOf(1)[2].ID

NotFoundText(name) == "Error: Tool '" \o name \o "' not found"

\* the latest response names no transfer and at least one unregistered tool
UnknownToolTurn ==
    /\ Last > 0
    /\ HasCalls(Last)
    /\ \A c \in 1..Len(CallsOf(Last)) :
          \A j \in 1..Len(AgentDef(received[Last].agent).Handoffs) :
              HandoffToolName[received[Last].agent][j] # CallsOf(Last)[c].Name
    /\ \E c \in 1..Len(CallsOf(Last)) : ~findTool(received[Last].agent, CallsOf(Last)[c].Name)

\* C9: tool-not-found is recovered locally.  An invocation of an
\* unregistered name is answered by a tool-role message with the error text
\* and the id; the registered invocations after it are still invoked; the turn
\* fails only if a tool or tool hook actually failed; and the loop goes on.
\* (The second copy of the engine, executeToolCall at lines 1494-1546, returns
\* an error for an unregistered name instead; executeRegularToolsStrict has
\* that shape.)
ToolNotFoundRecovered ==
    /\ (pc = "step" /\ HasCalls(Last) /\ stepResult.nextAgent = NoAgent) =>
          LET calls == CallsOf(Last) IN
          \A k \in 1..Len(calls) :
              IF findTool(received[Last].agent, calls[k].Name)
              THEN \E e \in 1..Len(trace) : trace[e].ev = "Invoke" /\ trace[e].id = calls[k].ID
              ELSE stepResult.messages[k + 1] =
                       Message("tool", NotFoundText(calls[k].Name), <<>>, calls[k].ID)
    /\ (pc = "done" /\ err = "tool execution error") =>
          /\ Len(trace) > 0
          /\ trace[Len(trace)].ev \in Stages
          /\ trace[Len(trace)].out = "error"
    /\ (pc = "done" /\ UnknownToolTurn) =>
          err \in {"tool execution error", "LLM call failed", "failed to get instructions",
                   ErrMaxTurnsExceeded}
    /\ (pc = "post" /\ UnknownToolTurn) => finalOutput = ""

ToolNotFoundRecoveredWitness ==
    /\ result # NoResult
    /\ Last = 2
    /\ Len(CallsOf(1)) = 2
    /\ CallsOf(1)[1].Name = "ghost"
    /\ CallsOf(1)[2].Name = "foo"
    /\ \E i \in 1..(Len(result.History) - 1) :
          /\ result.History[i] = Message("tool", NotFoundText("ghost"), <<>>, CallsOf(1)[1].ID)
          /\ result.History[i + 1] = Message("tool", InvokeResult("foo"), <<>>, CallsOf(1)[2].ID)

\* C10: a failing tool, OnToolStart hook or OnToolEnd hook aborts the run.
\* The failing call is the last thing the engine does: no later invocation,
\* no further completion-service call, no second attempt, and the run returns
\* an error and no Result.
ToolFailureAborts ==
    \A k \in 1..Len(trace) :
        (trace[k].ev \in Stages /\ trace[k].out = "error") =>
            /\ k = Len(trace)
            /\ pc = "done"
            /\ err = "tool execution error"
            /\ result = NoResult
            /\ modelCalls = TurnOf(k)
            /\ Cardinality({j \in 1..Len(trace) :
                              trace[j].ev = trace[k].ev /\ trace[j].id = trace[k].id}) = 1
            /\ \A msgs \in {messages, resultMessages} :
                  \A i \in 1..Len(msgs) : msgs[i].ToolCallID # trace[k].id

ToolFailureAbortsWitness ==
    /\ pc = "done"
    /\ Len(trace) > 0
    /\ trace[Len(trace)].ev = "Invoke"
    /\ trace[Len(trace)].out = "error"
    /\ Len(CallsOf(Last)) = 2
    /\ trace[Len(trace)].id = CallsOf(Last)[1].ID
    /\ CallsOf(Last)[2].Name = "foo"

\* the handoffs of the asking agent that response n's invocation c names and
\* whose decision predicate accepts its payload
Accepting(n, c) ==
    {j \in 1..Len(AgentDef(received[n].agent).Handoffs) :
        /\ HandoffToolName[received[n].agent][j] = CallsOf(n)[c].Name
        /\ ShouldHandoff(AgentDef(received[n].agent).Handoffs[j], CallsOf(n)[c].Arguments)}

\* the invocations of response n that request a transfer which is accepted
Matches(n) == {c \in 1..Len(CallsOf(n)) : Accepting(n, c) # {}}

Least(S) == CHOOSE x \in S : \A y \in S : x <= y

\* the first such invocation and the handoff it selects
FirstMatch(n) == CallsOf(n)[Least(Matches(n))]
MatchedHandoff(n) == AgentDef(received[n].agent).Handoffs[Least(Accepting(n, Least(Matches(n))))]

\* the required fields of the selected handoff that the payload lacks
MissingFields(n) == MatchedHandoff(n).schema.required \ PayloadFields(FirstMatch(n).Arguments)

IsFinalCandidate(n) == ~HasCalls(n)

\* C12: a run that succeeds with an agent that declares an output type
\* carries in Result.StructuredOutput the value parsed from the content of the
\* final response (not absent, not the value of an earlier response); content
\* of such an agent that does not parse ends the run with InvalidOutputFormat
\* and without a Result; an agent without output type has no structured value.
StructuredRoundTrip ==
    /\ result # NoResult =>
          /\ Last > 0
          /\ IsFinalCandidate(Last)
          /\ received[Last].agent = result.LastAgent
          /\ IF AgentDef(result.LastAgent).OutputType
             THEN /\ UnmarshalOK(received[Last].message.Content)
                  /\ result.StructuredOutput = Unmarshal(received[Last].message.Content)
                  /\ result.StructuredOutput # Nil
             ELSE result.StructuredOutput = Nil
    /\ \A n \in 1..Last :
          (/\ IsFinalCandidate(n)
           /\ AgentDef(received[n].agent).OutputType
           /\ ~UnmarshalOK(received[n].message.Content)) =>
              /\ n = Last
              /\ pc = "done"
              /\ err = ErrInvalidOutputFormat
              /\ result = NoResult
    /\ err = ErrInvalidOutputFormat =>
          /\ Last > 0
          /\ IsFinalCandidate(Last)
          /\ AgentDef(received[Last].agent).OutputType
          /\ ~UnmarshalOK(received[Last].message.Content)

StructuredRoundTripWitness ==
    /\ result # NoResult
    /\ result.LastAgent = "a2"
    /\ AgentDef("a2").OutputType
    /\ received[Last].message.Content = JsonBar
    /\ result.StructuredOutput = "{Bar:baz}"
    /\ Last = 2

\* the positions in the trace of the output checks run in turn n
OutputChecks(n) == {k \in 1..Len(trace) : trace[k].ev = "OutputCheck" /\ TurnOf(k) = n}

\* the text the pipeline holds after the check at position k
TextAfter(k) == IF trace[k].out = "rewrite" THEN ModifiedOutput(trace[k].id) ELSE trace[k].arg

\* C13: the output checks of the agent that produced the candidate final
\* output run in list order, one after the other; the first sees the content
\* of the response and check i+1 sees the text as checks 1..i left it; the
\* first check that disallows ends the run with GuardrailTripwire and its
\* message, no later check runs and there is no Result; a run that succeeds
\* has run every check of the final agent.
OutputPipeline ==
    /\ \A k \in 1..Len(trace) :
          trace[k].ev = "OutputCheck" =>
              /\ IsFinalCandidate(TurnOf(k))
              /\ trace[k].agent = received[TurnOf(k)].agent
              /\ trace[k].id \in 1..AgentDef(trace[k].agent).OutputGuardrails
              /\ IF trace[k].id = 1
                 THEN /\ trace[k - 1].ev \in {"CreateChatCompletion", "Unmarshal"}
                      /\ trace[k].arg = received[TurnOf(k)].message.Content
                 ELSE /\ trace[k - 1].ev = "OutputCheck"
                      /\ trace[k - 1].id = trace[k].id - 1
                      /\ trace[k - 1].out \in {"allow", "rewrite"}
                      /\ trace[k].arg = TextAfter(k - 1)
              /\ trace[k].out = "deny" =>
                    /\ k = Len(trace)
                    /\ pc = "done"
                    /\ err = ErrGuardrailTripwire
                    /\ errMsg = GuardrailMessage(trace[k].id)
                    /\ result = NoResult
    /\ result # NoResult =>
          Cardinality(OutputChecks(Last)) = AgentDef(result.LastAgent).OutputGuardrails

OutputPipelineWitness ==
    /\ pc = "done"
    /\ err = ErrGuardrailTripwire
    /\ Len(trace) > 2
    /\ trace[Len(trace)].ev = "OutputCheck"
    /\ trace[Len(trace)].id = 2
    /\ trace[Len(trace)].out = "deny"
    /\ trace[Len(trace)].arg = ModifiedOutput(1)
    /\ trace[Len(trace) - 1].out = "rewrite"
    /\ trace[Len(trace) - 1].arg = JsonBar

\* the output checks of turn n that handed back a replacement text
Rewrites(n) == {k \in OutputChecks(n) : trace[k].out = "rewrite"}

Greatest(S) == CHOOSE x \in S : \A y \in S : y <= x

\* C14: when an output check of the final agent hands back a replacement
\* text, Result.FinalOutput is the text of the last check that did so, and
\* Result.StructuredOutput is still the value parsed from the original
\* content of the response; without a replacement FinalOutput is that content.
RewriteLeavesStructured ==
    result # NoResult =>
        IF Rewrites(Last) = {}
        THEN result.FinalOutput = received[Last].message.Content
        ELSE /\ result.FinalOutput = ModifiedOutput(trace[Greatest(Rewrites(Last))].id)
             /\ result.FinalOutput # received[Last].message.Content
             /\ result.StructuredOutput =
                    (IF AgentDef(result.LastAgent).OutputType
                     THEN Unmarshal(received[Last].message.Content) ELSE Nil)

RewriteLeavesStructuredWitness ==
    /\ result # NoResult
    /\ Rewrites(Last) # {}
    /\ received[Last].message.Content = JsonBar
    /\ result.FinalOutput = ModifiedOutput(1)
    /\ result.StructuredOutput = "{Bar:baz}"
    /\ Cardinality(OutputChecks(Last)) = 2

\* the agent has a function that computes its instructions
HasInstructionsFunction(a) == AgentDef(a).instr \in {"dynamic", "async"}

\* C15 as stated: MissingInstructions is returned, before any call of the
\* completion service, exactly when the starting agent has neither static
\* instructions nor a function that computes them; an agent with such a
\* function is accepted.  validateInputsAndSetup looks at the Instructions
\* field alone, so a start agent whose instructions are only computed is
\* refused.
MissingInstructionsExactly ==
    /\ err = ErrAgentMissingInstructions =>
          /\ modelCalls = 0
          /\ AgentDef(config.agent).Instructions = ""
          /\ ~HasInstructionsFunction(config.agent)
    /\ (pc = "done" /\ config.agent # NoAgent /\ config.ModelProvider
           /\ AgentDef(config.agent).Instructions = ""
           /\ ~HasInstructionsFunction(config.agent)) =>
          err = ErrAgentMissingInstructions

\* the handoffs of the asking agent that carry the name of invocation c of
\* response n, and the invocations of response n that carry such a name
Named(n, c) ==
    {j \in 1..Len(AgentDef(received[n].agent).Handoffs) :
        HandoffToolName[received[n].agent][j] = CallsOf(n)[c].Name}
Shaped(n) == {c \in 1..Len(CallsOf(n)) : Named(n, c) # {}}

\* C16 as stated: the agent a transfer makes current is the target of the
\* first invocation of the response that names a transfer.  It is not when
\* the decision predicate of that transfer declines the payload and a later
\* invocation names a transfer that accepts.
FirstShapedHonored ==
    (pc = "step" /\ stepResult.nextAgent # NoAgent) =>
        \E j \in Named(Last, Least(Shaped(Last))) :
            stepResult.nextAgent = AgentDef(received[Last].agent).Handoffs[j].target

\* C16, amended: among the invocations of a response that name a transfer
\* whose decision predicate accepts the payload, the first in list order is
\* honored: its target (of the first such transfer in the agent's list) and
\* its payload are the ones the step hands on, and that target, never the
\* target of a later invocation, is the agent that becomes current; when no
\* invocation is accepted no transfer is taken.  (The older copy of the engine,
\* part_007:1423-1491, goes through all invocations and keeps the target of
\* the last accepted one; this module follows the copy of lines 1-999.)
FirstAcceptedHonored ==
    /\ (pc = "step" /\ HasCalls(Last)) =>
          IF Matches(Last) = {}
          THEN stepResult.nextAgent = NoAgent
          ELSE /\ stepResult.nextAgent = MatchedHandoff(Last).target
               /\ stepResult.handoffInput = FirstMatch(Last).Arguments
    /\ (pc = "post" /\ Last \in TransferTurns) =>
          /\ Matches(Last) # {}
          /\ currentAgent = MatchedHandoff(Last).target

FirstAcceptedHonoredWitness ==
    /\ pc = "post"
    /\ Last \in TransferTurns
    /\ Matches(Last) = {1, 2}
    /\ currentAgent = MatchedHandoff(Last).target
    /\ \A j \in Accepting(Last, 2) :
          AgentDef(received[Last].agent).Handoffs[j].target # currentAgent

\* C17 as stated: a transfer without tool-name override is exposed under
\* transfer_to_<target agent's name, lower case, spaces as underscores>, so
\* the invocation that is honored names the target's agent name and every
\* transfer of the asking agent that carries the invoked name leads to the
\* agent that becomes current.  ToolName reads the target's name through a
\* method Name() that *agent.Agent does not have (it has the field Name and
\* the method GetName), so every such transfer is named after its kind
\* (transfer_to_simple_handoff) and two of them on one agent share the name.
DefaultNameFromTarget ==
    (pc = "step" /\ stepResult.nextAgent # NoAgent) =>
        /\ MatchedHandoff(Last).toolName = "" =>
              FirstMatch(Last).Name = DefaultToolName(AgentName(MatchedHandoff(Last).target))
        /\ \A j \in Named(Last, Least(Matches(Last))) :
              AgentDef(received[Last].agent).Handoffs[j].target = stepResult.nextAgent

\* the positions in the trace of the calls of one kind
Positions(ev) == {k \in 1..Len(trace) : trace[k].ev = ev}

\* the ids of the invocations so far that name a tool of the asking agent
RegisteredCalls ==
    UNION {{CallsOf(n)[c].ID : c \in {d \in 1..Len(CallsOf(n)) :
                                        findTool(received[n].agent, CallsOf(n)[d].Name)}} :
           n \in 1..Last}

\* C18: hook lifecycle of a run without transfer.  Around every executed
\* invocation OnToolStart is the call just before Invoke and OnToolEnd the
\* call just after it, for the same invocation.  In a run that succeeds
\* OnStart is called exactly once, for the starting agent, after all its
\* input checks and before the first call of the completion service; OnEnd
\* is called exactly once, last of all, with the final output (the parsed
\* value when there is one); and the
\* numbers of OnToolStart, Invoke and OnToolEnd calls all equal the number
\* of invocations of registered tools, each executed once.
HookLifecycle ==
    /\ \A k \in Positions("Invoke") :
          /\ k > 1
          /\ trace[k - 1].ev = "OnToolStart"
          /\ trace[k - 1].id = trace[k].id
          /\ trace[k - 1].out = "ok"
    /\ \A k \in Positions("OnToolEnd") :
          /\ k > 1
          /\ trace[k - 1].ev = "Invoke"
          /\ trace[k - 1].id = trace[k].id
          /\ trace[k - 1].out = "ok"
    /\ (result # NoResult /\ TransferTurns = {}) =>
          /\ Cardinality(Positions("OnStart")) = 1
          /\ \A k \in Positions("OnStart") :
                /\ trace[k].agent = config.agent
                /\ k = AgentDef(config.agent).InputGuardrails + 1
                /\ \A j \in 1..(k - 1) : trace[j].ev = "InputCheck"
                /\ \A j \in Positions("InputCheck") \cup Positions("CreateChatCompletion") :
                      (j < k) <=> trace[j].ev = "InputCheck"
          /\ Positions("OnEnd") = {Len(trace)}
          /\ trace[Len(trace)].agent = config.agent
          /\ trace[Len(trace)].arg = (IF result.StructuredOutput # Nil
                                      THEN result.StructuredOutput ELSE result.FinalOutput)
          /\ \A k \in Positions("OnToolStart") :
                trace[k + 1].ev = "Invoke" /\ trace[k + 1].id = trace[k].id
          /\ \A k \in Positions("Invoke") :
                trace[k + 1].ev = "OnToolEnd" /\ trace[k + 1].id = trace[k].id
          /\ {trace[k].id : k \in Positions("Invoke")} = RegisteredCalls
          /\ Cardinality(Positions("OnToolStart")) = Cardinality(RegisteredCalls)
          /\ Cardinality(Positions("Invoke")) = Cardinality(RegisteredCalls)
          /\ Cardinality(Positions("OnToolEnd")) = Cardinality(RegisteredCalls)

HookLifecycleWitness ==
    /\ result # NoResult
    /\ TransferTurns = {}
    /\ Cardinality(Positions("InputCheck")) = 2
    /\ Cardinality(Positions("Invoke")) = 2
    /\ Cardinality(Positions("OnToolEnd")) = 2
    /\ Cardinality(Positions("CreateChatCompletion")) = 2
    /\ Positions("OnEnd") = {Len(trace)}

\* the positions in the trace of the calls of one kind made for one agent
PositionsFor(ev, a) == {k \in Positions(ev) : trace[k].agent = a}

\* C19: hook lifecycle of a run that succeeds with one transfer, from the
\* starting agent A to B.  The engine-level callback, when configured, is
\* called exactly once, with target B, source A and the payload of the
\* honored invocation as it was received; B's OnHandoff is called exactly
\* once (with source A), then B's OnStart exactly once, both in the turn of
\* the transfer and so before B's first call of the completion service; A's
\* OnEnd and A's OnHandoff are never called, A's OnStart only at the start;
\* B's OnEnd is called exactly once, last of all.
TransferLifecycle ==
    \A t \in 1..Last :
        (result # NoResult /\ TransferTurns = {t}) =>
            LET A == received[t].agent
                B == result.LastAgent
            IN  /\ A = config.agent
                /\ B = MatchedHandoff(t).target
                /\ A # B
                /\ Cardinality(Positions("HandoffCallback")) =
                      (IF config.HandoffCallback THEN 1 ELSE 0)
                /\ \A k \in Positions("HandoffCallback") :
                      /\ trace[k].agent = B
                      /\ trace[k].source = A
                      /\ trace[k].arg = FirstMatch(t).Arguments
                      /\ TurnOf(k) = t
                      /\ \A j \in Positions("OnHandoff") : k < j
                /\ Cardinality(Positions("OnHandoff")) = 1
                /\ PositionsFor("OnHandoff", A) = {}
                /\ \A k \in PositionsFor("OnHandoff", B) :
                      /\ trace[k].arg = A
                      /\ TurnOf(k) = t
                      /\ \A j \in PositionsFor("OnStart", B) : k < j
                /\ Cardinality(PositionsFor("OnStart", B)) = 1
                /\ \A k \in PositionsFor("OnStart", B) :
                      /\ TurnOf(k) = t
                      /\ \A j \in PositionsFor("CreateChatCompletion", B) : k < j
                /\ PositionsFor("CreateChatCompletion", B) # {}
                /\ Cardinality(PositionsFor("OnStart", A)) = 1
                /\ \A k \in PositionsFor("OnStart", A) : TurnOf(k) = 0
                /\ PositionsFor("OnEnd", A) = {}
                /\ PositionsFor("OnEnd", B) = {Len(trace)}

TransferLifecycleWitness ==
    /\ result # NoResult
    /\ TransferTurns = {1}
    /\ config.agent = "a1"
    /\ result.LastAgent = "a2"
    /\ \E k \in Positions("HandoffCallback") :
          trace[k].source = "a1" /\ trace[k].agent = "a2" /\ trace[k].arg = PReason
    /\ PositionsFor("OnEnd", "a2") = {Len(trace)}

\* C20: a run ends in exactly one of two ways: with a Result and no error,
\* or with an error and no Result.  No Result is returned next to an error,
\* also when the OnEnd hook fails after the final output was produced; a
\* Result that is returned carries that final output and the last agent.
RunOutcome ==
    /\ pc # "done" => (result = NoResult /\ err = "")
    /\ pc = "done" =>
          \/ result # NoResult /\ err = ""
          \/ result = NoResult /\ err # ""
    /\ result # NoResult =>
          /\ result.FinalOutput = finalOutput
          /\ result.FinalOutput # ""
          /\ result.LastAgent = currentAgent
    /\ \A k \in Positions("OnEnd") :
          trace[k].out = "error" =>
              /\ k = Len(trace)
              /\ pc = "done"
              /\ err = "error in OnEnd hook"
              /\ result = NoResult

RunOutcomeWitness ==
    /\ pc = "done"
    /\ finalOutput # ""
    /\ Len(trace) > 0
    /\ trace[Len(trace)].ev = "OnEnd"
    /\ trace[Len(trace)].out = "error"
    /\ err = "error in OnEnd hook"
    /\ result = NoResult

\* the agent the transfers taken so far lead to
TransferTarget == IF TransferTurns = {} THEN config.agent
                  ELSE MatchedHandoff(Greatest(TransferTurns)).target

\* C21: while a run is between two steps of its loop exactly one agent is
\* current: the starting agent when no transfer was taken, else the target of
\* the last transfer taken; and the LastAgent of a Result is that agent, which
\* is also the agent that was asked for the final response.
LastAgentIsCurrent ==
    /\ pc \in {"loop", "step", "post", "end"} => currentAgent \in Agents
    /\ pc \in {"loop", "post", "end"} => currentAgent = TransferTarget
    /\ result # NoResult =>
          /\ result.LastAgent = currentAgent
          /\ result.LastAgent = TransferTarget
          /\ result.LastAgent = received[Last].agent

LastAgentIsCurrentWitness ==
    /\ result # NoResult
    /\ config.agent = "a2"
    /\ TransferTurns = {1, 2}
    /\ MatchedHandoff(1).target = "a1"
    /\ result.LastAgent = "a3"

\* the tool-role message that answers invocation tc of agent a when the tool,
\* if there is one, succeeds
ToolAnswer(a, tc) ==
    Message("tool", IF findTool(a, tc.Name) THEN InvokeResult(tc.Name) ELSE NotFoundText(tc.Name),
            <<>>, tc.ID)

\* what turn n adds to the history: the assistant message, then, unless the
\* turn took a transfer, one tool-role message per invocation
TurnBlock(n) ==
    <<received[n].message>>
    \o (IF n \in TransferTurns THEN <<>>
        ELSE [c \in 1..Len(CallsOf(n)) |-> ToolAnswer(received[n].agent, CallsOf(n)[c])])

RECURSIVE TurnBlocks(_)
TurnBlocks(n) == IF n = 0 THEN <<>> ELSE TurnBlocks(n - 1) \o TurnBlock(n)

\* C22: the History of a Result holds no system message and is exactly the
\* user input (when it is not empty), then for every turn in order the
\* assistant message followed by that turn's tool-role messages (none on a
\* turn that took a transfer), so that it ends with the final assistant
\* message: length 2 for one plain-text turn, 4 for one tool round with one
\* invocation and a final text, 3 for one transfer and a final text.
HistoryShape ==
    result # NoResult =>
        /\ \A i \in 1..Len(result.History) : result.History[i].Role # "system"
        /\ result.History =
              (IF config.input # "" THEN <<Message("user", config.input, <<>>, 0)>> ELSE <<>>)
              \o TurnBlocks(Last)
        /\ result.History[Len(result.History)] = received[Last].message
        /\ (config.input # "" /\ Last = 1) => Len(result.History) = 2
        /\ (config.input # "" /\ Last = 2 /\ Len(CallsOf(1)) = 1) =>
              Len(result.History) = (IF 1 \in TransferTurns THEN 3 ELSE 4)

HistoryShapeWitness ==
    /\ result # NoResult
    /\ config.input = "hi"
    /\ Last = 2
    /\ TransferTurns = {}
    /\ Len(CallsOf(1)) = 1
    /\ Len(result.History) = 4
    /\ result.History[1].Role = "user"
    /\ result.History[3] = Message("tool", InvokeResult("foo"), <<>>, 11)
    /\ result.History[4].Content = "done"

(***************************************************************************)
(* Observations on the registry                                            *)
(***************************************************************************)
SamePair(v, w) == v.from = w.from /\ v.to = w.to
ReversePair(v, w) == v.from = w.to /\ v.to = w.from

\* the verdict the k-th call gets when transfers are remembered by their two
\* names: the earlier allowed calls of the same pair and of the reverse pair
AllowedBefore(k) == {i \in 1..(k - 1) : verdicts[i].allowed}
TooSoonByPair(k) ==
    \E i \in AllowedBefore(k) :
        SamePair(verdicts[i], verdicts[k]) /\ verdicts[k].at - verdicts[i].at < MinInterval
LoopByPair(k) ==
    \E i \in AllowedBefore(k) :
        ReversePair(verdicts[i], verdicts[k]) /\ verdicts[k].at - verdicts[i].at < MinInterval * 2

\* C23: CanHandoff(from, to) is denied with "too soon" if an allowed transfer
\* from -> to was recorded less than the minimum interval ago, is denied with
\* "loop detected" if an allowed transfer to -> from was recorded less than
\* twice the minimum interval ago, and is otherwise allowed and recorded.
VerdictsByPair ==
    \A k \in 1..Len(verdicts) :
        LET v == verdicts[k] IN
        IF TooSoonByPair(k)
        THEN ~v.allowed /\ v.reason = TooSoonReason(v.from, v.to)
        ELSE IF LoopByPair(k)
             THEN ~v.allowed /\ v.reason = LoopReason(v.from, v.to)
             ELSE v.allowed /\ v.reason = ""

\* C24: the check and the record of CanHandoff are one atomic step: whatever
\* the interleaving of concurrent calls, two calls for the same ordered pair
\* are never both allowed within the minimum interval, and a call for a -> b
\* and a call for b -> a are never both allowed within twice that interval.
RegistryAtomic ==
    \A i, j \in 1..Len(verdicts) :
        (i < j /\ verdicts[i].allowed /\ verdicts[j].allowed) =>
            /\ verdicts[i].at <= verdicts[j].at
            /\ SamePair(verdicts[i], verdicts[j]) =>
                   verdicts[j].at - verdicts[i].at >= MinInterval
            /\ ReversePair(verdicts[i], verdicts[j]) =>
                   verdicts[j].at - verdicts[i].at >= MinInterval * 2

RegistryAtomicWitness ==
    /\ Len(verdicts) = 3
    /\ \A k \in 1..3 : verdicts[k].overlapped /\ verdicts[k].at = 0
    /\ verdicts[1] = [from |-> "a", to |-> "b", allowed |-> TRUE, reason |-> "", at |-> 0,
                      overlapped |-> TRUE]
    /\ SamePair(verdicts[1], verdicts[2])
    /\ verdicts[2].reason = TooSoonReason("a", "b")
    /\ ReversePair(verdicts[1], verdicts[3])
    /\ verdicts[3].reason = LoopReason("b", "a")

\* C25: the input guardrails are evaluated once per run, before the first
\* turn and before anything else, on the raw input, and only those of the
\* starting agent, each once and in order; after a transfer no input
\* guardrail is evaluated again and those of the target are never evaluated.
InputChecksOnce ==
    LET n == AgentDef(config.agent).InputGuardrails
        P == Positions("InputCheck")
    IN  pc # "init" =>
            /\ \A k \in P :
                  /\ k <= n
                  /\ \A j \in 1..k : trace[j].ev = "InputCheck"
                  /\ trace[k].agent = config.agent
                  /\ trace[k].id = k
                  /\ trace[k].arg = config.input
                  /\ TurnOf(k) = 0
            /\ (\E k \in 1..Len(trace) : trace[k].ev # "InputCheck") => P = 1..n
            /\ result # NoResult => Cardinality(P) = n

InputChecksOnceWitness ==
    /\ result # NoResult
    /\ config.agent = "a1"
    /\ TransferTurns = {1, 2}
    /\ MatchedHandoff(1).target = "a2"
    /\ result.LastAgent = "a1"
    /\ AgentDef("a2").InputGuardrails > 0
    /\ Positions("InputCheck") = {1, 2}
    /\ PositionsFor("InputCheck", "a2") = {}
    /\ PositionsFor("OnStart", "a2") # {}

\* C26: a failed call of the completion service is not retried: the run ends
\* with the error after exactly one call for that turn, nothing is called
\* after it, no further turn starts, and the usage of the failed call is not
\* added; every turn makes one call.
NoRetry ==
    /\ Cardinality(Positions("CreateChatCompletion")) = modelCalls
    /\ \A k \in Positions("CreateChatCompletion") :
          /\ Cardinality({j \in Positions("CreateChatCompletion") : trace[j].id = trace[k].id}) = 1
          /\ trace[k].out = "error" =>
                /\ k = Len(trace)
                /\ trace[k].id = modelCalls
                /\ modelCalls = Len(received) + 1
                /\ pc = "done"
                /\ err = "LLM call failed"
                /\ result = NoResult
                /\ Len(reported) = Len(received)
                /\ usage = SumUsage(reported)

NoRetryWitness ==
    /\ pc = "done"
    /\ err = "LLM call failed"
    /\ modelCalls = 2
    /\ Len(received) = 1
    /\ trace[Len(trace)] = Event("CreateChatCompletion", currentAgent, 2, "", "error")
    /\ usage = reported[1]
    /\ usage.TotalTokens > 0

(***************************************************************************)
(* Observations on an agent and its clone                                  *)
(***************************************************************************)
\* the four lists of agent x as its holder sees them
ListsOf(x) == [f \in ListFields |-> Elements(heap, lists[x][f])]

\* C27: after c := a.Clone(), an AddTool, AddHandoff, AddInputGuardrail,
\* AddOutputGuardrail or element assignment on c leaves the four lists of a
\* unchanged, and one on a leaves the four lists of c unchanged.
CloneIndependence ==
    [][cloned =>
          /\ lastOp' = "c" => ListsOf("a")' = ListsOf("a")
          /\ lastOp' = "a" => ListsOf("c")' = ListsOf("c")]_vars

CloneIndependenceWitness ==
    /\ cloned
    /\ ops = 5
    /\ lastOp = "a"
    /\ ListsOf("a").Tools = <<1, 5>>
    /\ ListsOf("c").Tools = <<1, 2, 3, 4>>
    /\ lists["c"].Tools.cap = 4

\* a turn that asked for invocations: a tool round or a transfer
IsTransferTurnOrRound(n) == Len(CallsOf(n)) > 0

\* C28: a MaxTurns of zero or less is replaced by the default budget of 10
\* turns: such a run makes up to 10 calls of the completion service, and it
\* ends with MaxTurnsExceeded only after ten calls none of which gave a
\* final output.
DefaultBudget ==
    (pc # "init" /\ err # ErrAgentMissingInstructions /\ err # ErrModelProviderRequired) =>
        /\ config.MaxTurns = (IF call.config.MaxTurns <= 0 THEN DefaultMaxTurns
                              ELSE call.config.MaxTurns)
        /\ call.config.MaxTurns <= 0 =>
              /\ modelCalls <= DefaultMaxTurns
              /\ stepCounter <= DefaultMaxTurns
              /\ err = ErrMaxTurnsExceeded =>
                    /\ modelCalls = DefaultMaxTurns
                    /\ Len(received) = DefaultMaxTurns
                    /\ \A n \in 1..Len(received) :
                          IsTransferTurnOrRound(n) \/ received[n].message.Content = ""

DefaultBudgetWitness ==
    /\ pc = "done"
    /\ call.config.MaxTurns = 0
    /\ err = ErrMaxTurnsExceeded
    /\ modelCalls = 10
    /\ stepCounter = 10
    /\ \A n \in 1..10 : received[n].message.Content = "" /\ Len(CallsOf(n)) = 0

(***************************************************************************)
(* Observations on the spans                                               *)
(***************************************************************************)
SpanNames == {spans[i].name : i \in 1..Len(spans)}
OpenSpans == {i \in 1..Len(spans) : ~spans[i].completed}

\* C29: when RunWithConfig has returned, with a Result or with any error
\* raised after the validation, every span the engine started (run, step,
\* llm call, guardrails, tools, handoff) has been ended; the span of an
\* aborted run carries an "error" attribute, that of a successful run does
\* not; between two turns only the span of the run is open.
SpansEnded ==
    /\ pc = "done" => OpenSpans = {}
    /\ pc \in {"loop", "step", "post", "end"} => OpenSpans = {RunSpan}
    /\ (pc = "done" /\ err \notin {ErrAgentMissingInstructions, ErrModelProviderRequired}) =>
          /\ spans # <<>>
          /\ spans[RunSpan].name = "agent_run"
          /\ err # "" <=> "error" \in spans[RunSpan].attributes
          /\ result # NoResult <=> "success" \in spans[RunSpan].attributes

SpansEndedWitness ==
    /\ pc = "done"
    /\ err = ErrGuardrailTripwire
    /\ SpanNames = {"agent_run", "input_guardrails", "agent_step", "llm_call", "tool_execution",
                    "tool_call", "handoff", "output_guardrails"}
    /\ OpenSpans = {}
    /\ spans[RunSpan].attributes = {"output", "error"}
    /\ spans[Len(spans)].name = "output_guardrails"
    /\ spans[Len(spans)].attributes = {"guardrail_triggered"}

\* C30: cancelling the caller's context aborts the run: once it is
\* cancelled no call of the completion service begins, and the run returns
\* an error and no Result.
CancelAborts ==
    cancelledAt # NotCancelled =>
        /\ modelCalls = cancelledAt
        /\ pc = "done" => (err # "" /\ result = NoResult)

(***************************************************************************)
(* The inter-turn delay                                                    *)
(***************************************************************************)
\* the turn that followed sleep i reached its call of the completion service
SleepFollowedByCall(i) ==
    /\ modelCalls > sleeps[i].calls
    /\ Len(trace) > sleeps[i].at
    /\ trace[sleeps[i].at + 1].ev = "CreateChatCompletion"
    /\ trace[sleeps[i].at + 1].id = sleeps[i].calls + 1

\* the run ended in a turn after the first whose instructions could not be resolved
LaterTurnWithoutCall ==
    /\ pc = "done"
    /\ err = "failed to get instructions"
    /\ stepCounter > 0

\* C31 as stated: with a positive delay, a run that has made k calls of the
\* completion service has waited k-1 times, once immediately before each of
\* the calls 2..k, never before the first call and never after the last.
DelayBeforeEveryCallButFirst ==
    config.StepDelay > 0 =>
        /\ Len(sleeps) = (IF modelCalls = 0 THEN 0 ELSE modelCalls - 1)
        /\ \A i \in 1..Len(sleeps) : sleeps[i].calls = i /\ SleepFollowedByCall(i)

\* C31 amended: with a positive delay, the engine waits once at the head of
\* every turn except the first, before the turn resolves the instructions.
\* Wait i comes after call i; the next thing the engine calls is call i+1,
\* unless the instructions of that turn cannot be resolved: then the run
\* ends with that error, the wait is followed by no call, and the run has
\* waited as often as it has called.
DelayBeforeEveryTurnButFirst ==
    config.StepDelay > 0 =>
        /\ Len(sleeps) = (IF LaterTurnWithoutCall THEN modelCalls
                          ELSE IF modelCalls = 0 THEN 0 ELSE modelCalls - 1)
        /\ \A i \in 1..Len(sleeps) :
              /\ sleeps[i].calls = i
              /\ (i < Len(sleeps) \/ ~LaterTurnWithoutCall) => SleepFollowedByCall(i)
              /\ (i = Len(sleeps) /\ LaterTurnWithoutCall) =>
                    /\ modelCalls = i
                    /\ Len(trace) = sleeps[i].at

\* a run with a delay waited before its second call, and again before a
\* third turn that could not resolve its instructions and made no call
DelayBeforeEveryTurnButFirstWitness ==
    /\ config.StepDelay > 0
    /\ LaterTurnWithoutCall
    /\ modelCalls = 2
    /\ Len(sleeps) = 2
    /\ SleepFollowedByCall(1)

(***************************************************************************)
(* The system message                                                      *)
(***************************************************************************)
\* the calls of the completion service made so far, as the trace has them
CallEvents == {i \in 1..Len(trace) : trace[i].ev = "CreateChatCompletion"}

\* the agent that made the latest call
LatestCaller == trace[Greatest(CallEvents)].agent

\* the system messages of a buffer
SystemMessages(msgs) == {i \in 1..Len(msgs) : msgs[i].Role = "system"}

\* C34: the buffer passed to a call of the completion service starts with a
\* system message that holds the instructions of the agent that makes the
\* call, as resolved in that turn, and has no other system message; a
\* transfer puts the target's instructions in the place of the system
\* message, so the buffer of the run has one system message, the first, at
\* every point.
SystemMessageFirst ==
    /\ modelCalls > 0 =>
          /\ CallEvents # {}
          /\ SystemMessages(sent) = {1}
          /\ sent[1] = Message("system", GetSystemPrompt(LatestCaller), <<>>, 0)
    /\ pc \notin {"init", "done"} => SystemMessages(messages) = {1}
    /\ pc \in {"step", "post", "end"} =>
          messages[1].Content \in {GetSystemPrompt(currentAgent), GetSystemPrompt(LatestCaller)}
    /\ (pc = "loop" /\ modelCalls > 0) =>
          messages[1].Content = GetSystemPrompt(currentAgent)

\* the second call of a run is made by a2 after a transfer from a1: its
\* buffer starts with the instructions a2's function gave, followed by what
\* was there before, and the first call had a1's instructions
SystemMessageFirstWitness ==
    /\ modelCalls = 2
    /\ Len(received) = 2
    /\ received[1].agent = "a1"
    /\ LatestCaller = "a2"
    /\ sent[1].Content = GetSystemPrompt("a2")
    /\ GetSystemPrompt("a2") # AgentDef("a2").Instructions
    /\ Len(sent) > 2

(***************************************************************************)
(* A transfer that is declined                                             *)
(***************************************************************************)
\* the invocations of response n that name a transfer and are declined by
\* the decision predicate of every transfer of that name
Declined(n) == {c \in 1..Len(CallsOf(n)) : Named(n, c) # {} /\ Accepting(n, c) = {}}

\* the tool-role message that answers invocation c of response n when no
\* tool has its name
NotFoundMessage(n, c) ==
    Message("tool", NotFoundText(CallsOf(n)[c].Name), <<>>, CallsOf(n)[c].ID)

\* what follows response n when its declined invocation c went to the tool
\* round: no transfer and no on-transfer callback in that turn, the asking
\* agent stays, the invocation is answered by the not-found message with its
\* id, which the next call is given, and only a failing tool or tool hook
\* ends the run in that turn (the next turn may, by its call or the budget)
HandledByToolRound(n, c) ==
    /\ n \notin TransferTurns
    /\ (n = Last /\ pc = "step") =>
          /\ stepResult.nextAgent = NoAgent
          /\ stepResult.messages[c + 1] = NotFoundMessage(n, c)
    /\ (n = Last /\ pc = "post") =>
          /\ currentAgent = received[n].agent
          /\ finalOutput = ""
          /\ messages[1] = sent[1]
          /\ \E i \in 1..Len(messages) : messages[i] = NotFoundMessage(n, c)
    /\ (n = Last /\ pc = "done") =>
          /\ err \in {"tool execution error", "LLM call failed", ErrMaxTurnsExceeded}
          /\ err # "tool execution error" =>
                /\ currentAgent = received[n].agent
                /\ \E i \in 1..Len(messages) : messages[i] = NotFoundMessage(n, c)
    /\ n < Last =>
          /\ received[n + 1].agent = received[n].agent
          /\ \E i \in 1..Len(messages) : messages[i] = NotFoundMessage(n, c)

MatchedEntry(n) == Least(Accepting(n, Least(Matches(n))))

\* C37: when a transfer is taken, the on-transfer callback that runs is the
\* callback of the entry whose tool name matched the invocation and whose
\* schema validated the payload, and when that entry has a callback it is
\* the one that runs, also when the agent has several entries toward the
\* same target.
CallbackOfMatchedEntry ==
    /\ \A k \in Positions("OnHandoffCallback") : trace[k].id = MatchedEntry(TurnOf(k))
    /\ (pc = "post" /\ Last \in TransferTurns /\ MatchedHandoff(Last).onHandoffCB) =>
          \E k \in Positions("OnHandoffCallback") :
              TurnOf(k) = Last /\ trace[k].id = MatchedEntry(Last)

(***************************************************************************)
(* The turn counter                                                        *)
(***************************************************************************)
\* the calls of the completion service that completed
CompletedCalls == Len(received)

\* C35 as stated: the turn counter increases by one for every completed call,
\* the final-output turn included: between two turns and when the loop is
\* left it equals the number of completed calls.
TurnCounterCountsCalls ==
    pc \in {"loop", "end"} => stepCounter = CompletedCalls

\* C35 amended: the turn counter increases by one at the end of every turn
\* that completed its call and gave no final output, and by nothing else: at
\* the head of every turn it equals the number of completed calls, within a
\* turn whose call completed it is one less, and it stays one less when that
\* turn gives the final output or is aborted after its call.
TurnCounterCountsTurns ==
    /\ pc = "init" => stepCounter = 0 /\ CompletedCalls = 0
    /\ pc = "loop" => stepCounter = CompletedCalls
    /\ pc \in {"step", "post", "end"} => stepCounter = CompletedCalls - 1
    /\ pc = "end" => hasFinalOutput(finalOutput)
    /\ pc = "done" =>
          /\ stepCounter \in {CompletedCalls, CompletedCalls - 1}
          /\ result # NoResult => stepCounter = CompletedCalls - 1
          /\ err = ErrMaxTurnsExceeded => stepCounter = CompletedCalls

\* a run of three completed calls, two tool rounds and the final answer,
\* that returned its result with the counter at two
TurnCounterCountsTurnsWitness ==
    /\ pc = "done"
    /\ result # NoResult
    /\ CompletedCalls = 3
    /\ stepCounter = 2

(***************************************************************************)
(* The batch span processor                                                *)
(***************************************************************************)
\* the Shutdown calls that have returned
Returned == {c \in ShutdownCallers : shutdowns[c].pc = "returned"}

\* C32: every span that OnEnd put into the queue before Shutdown was called
\* has been handed to the exporter exactly once by the time a Shutdown call
\* returns without a context timeout, and no span is ever handed to the
\* exporter more often than it was put into the queue.
DeliversExactlyOnce ==
    /\ \A s \in SpanIDs : exported[s] <= ended[s].accepted
    /\ \A c \in Returned : shutdowns[c].err # "context deadline exceeded" => shutdowns[c].complete

\* what holds of the Shutdown calls made so far, as C33 states it: the
\* channel is closed once by the first call and never again (a second close
\* would panic), and a call whose exporter shut down returned nil
ShutdownSafeAsStated ==
    /\ closes <= 1
    /\ closes = 1 <=> \E c \in ShutdownCallers : shutdowns[c].pc # "idle"
    /\ \A c \in Returned : shutdowns[c].exporterOk => shutdowns[c].err = ""

\* the same, where a call whose context is done before the goroutine has
\* returned gives the context's error
ShutdownSafe ==
    /\ closes <= 1
    /\ closes = 1 <=> \E c \in ShutdownCallers : shutdowns[c].pc # "idle"
    /\ \A c \in Returned :
          /\ shutdowns[c].exporterOk =>
                shutdowns[c].err \in {"", "context deadline exceeded"}
          /\ shutdowns[c].err = "context deadline exceeded" =>
                /\ shutdowns[c].ctx = "deadline"
                /\ ~shutdowns[c].alreadyClosed
          /\ (shutdowns[c].exporterOk /\ shutdowns[c].ctx = "background") => shutdowns[c].err = ""

\* every Shutdown call returns, and once the channel is closed the goroutine
\* returns: no call stays forever between its start and its return, and the
\* goroutine does not run forever with the channel closed
ShutdownTerminates ==
    /\ \A c \in ShutdownCallers : []<>(shutdowns[c].pc \in {"idle", "returned"})
    /\ []<>(closes = 0 \/ processLoop = "returned")

\* C33 as stated: Shutdown may be called any number of times, one after the
\* other or concurrently: the done channel is closed exactly once, no call
\* panics or blocks forever, the goroutine terminates, and each call returns
\* nil when the exporter's Shutdown succeeds.
ShutdownRepeatableAsStated == []ShutdownSafeAsStated /\ ShutdownTerminates

\* C33 amended: the same, where a call returns nil when the exporter's
\* Shutdown succeeds and the call's context was not done while the call
\* waited for the goroutine; the call that closed the channel and whose
\* context is done first returns the context's error.
ShutdownRepeatable == []ShutdownSafe /\ ShutdownTerminates

\* two calls have returned and the goroutine too: one found the channel
\* closed, the other closed it and gave up waiting, and both exporters
\* shut down
ShutdownRepeatableWitness ==
    /\ Returned = ShutdownCallers
    /\ processLoop = "returned"
    /\ closes = 1
    /\ \E c \in Returned :
          shutdowns[c].alreadyClosed /\ shutdowns[c].exporterOk /\ shutdowns[c].err = ""
    /\ \E c \in Returned :
          shutdowns[c].err = "context deadline exceeded" /\ shutdowns[c].exporterOk

\* C38: after EnableTracing, a span that has ended has been delivered to the
\* batch processor exactly once (one OnEnd), however often End was called
\* on it, and is put into the queue at most once.
EndDeliversOnce ==
    processorLists.global # <<>> =>
        \A s \in SpanIDs :
            /\ ended[s].delivered + ended[s].pending <= 1
            /\ (ended[s].completed /\ ended[s].pending = 0) => ended[s].delivered = 1
            /\ ended[s].accepted <= 1

(***************************************************************************)
(* What CanHandoff writes                                                  *)
(***************************************************************************)
\* the calls among the first n returned that were allowed and stored under key
AllowedUnder(key, n) ==
    {i \in 1..n : verdicts[i].allowed /\ HandoffKey(verdicts[i].from, verdicts[i].to) = key}

\* C39: a denied call leaves the registry as it is and an allowed call
\* writes the entry of its own pair only (the one stored under its key
\* from->to): the registry holds an entry for exactly the pairs that were
\* allowed, and each entry is the time of the latest allowed call for it,
\* whatever calls were denied since.
DeniedCallsWriteNothing ==
    /\ DOMAIN recentHandoffs =
           {HandoffKey(verdicts[i].from, verdicts[i].to) :
               i \in {j \in 1..Len(verdicts) : verdicts[j].allowed}}
    /\ \A key \in DOMAIN recentHandoffs :
          recentHandoffs[key] = verdicts[Greatest(AllowedUnder(key, Len(verdicts)))].at

\* a -> b was allowed at time 0; later a -> b was denied as too soon and
\* b -> a as a loop, and the registry still holds the one entry of time 0
DeniedCallsWriteNothingWitness ==
    /\ Len(verdicts) = 3
    /\ verdicts[1].allowed /\ verdicts[1].from = "a" /\ verdicts[1].to = "b" /\ verdicts[1].at = 0
    /\ \E i, j \in 2..3 :
          /\ verdicts[i].reason = TooSoonReason("a", "b") /\ verdicts[i].at > 0
          /\ verdicts[j].reason = LoopReason("b", "a") /\ verdicts[j].at > 0
    /\ DOMAIN recentHandoffs = {HandoffKey("a", "b")}
    /\ recentHandoffs[HandoffKey("a", "b")] = 0

(***************************************************************************)
(* The instructions of a clone                                             *)
(***************************************************************************)
\* c := a.Clone() has just returned: nothing was done to a or c since
JustCloned == cloned /\ lastOp = ""

\* C40: when a.Clone() with no options returns, GetSystemPrompt of the clone
\* gives what GetSystemPrompt of a gives (the same text, or the same error),
\* also when a has a dynamic or an async instructions function.
ClonePreservesSystemPrompt ==
    JustCloned =>
        SystemPromptOf(instructionFields["c"]) = SystemPromptOf(instructionFields["a"])
====
